---- MODULE Spec2Model ----
(***************************************************************************)
(* The LinkedIn ETL of Moscarde/polars-pandas-duckdb as a state machine.   *)
(* Two pipelines do the same work: EtlLinkedinPandas (in-memory frames,    *)
(* src/engines/method_1/etl_linkedin_pandas.py) and EtlLinkedin (DuckDB    *)
(* tables, src/data/etl_linkedin_duckdb.py).  The variable engine selects  *)
(* the pipeline; every action is one method call of its main().            *)
(*                                                                         *)
(* Cells are tuples whose length tells the type:                           *)
(*   <<s>>             text                                                *)
(*   <<n, d>>          the number n/d in lowest terms, d > 0;              *)
(*                     <<0, 0>> is NaN / NULL                              *)
(*   <<y, m, d>>       a date; <<0, 0, 0>> is NaT / NULL                   *)
(*   <<tag, a, b, c>>  a date still written as text: tag "mdY" for the     *)
(*                     spreadsheet's month/day/year, tag "iso" for the     *)
(*                     year-month-day text add_final_date builds           *)
(***************************************************************************)
EXTENDS Integers, Sequences, FiniteSets, TLC

VARIABLES
  engine,         \* "pandas" | "duckdb": which pipeline runs
  pc,             \* the method main() calls next; "done"; "raised"
  cur,            \* index in data of the table the running loop is at
  listing,        \* what os.listdir yields under raw_directory, in its order
  data,           \* the list extract_data returns: the frames read
  tables,         \* duckdb: the table dicts convert_pandas_to_duck returns
  db,             \* duckdb: the tables of self.con, by name
  pre,            \* per table of data: its frame as imputation found it
  post,           \* per table of data: its frame as imputation left it
  monthly_data,   \* the dict concatenate_monthly_* returns, in insertion order
  category_data,  \* the dict concatenate_category_* returns, in insertion order
  clean_files,    \* the CSV files written under clean_directory, in order
  raised          \* the exception that ended the run, or "none"

vars == <<engine, pc, cur, listing, data, tables, db, pre, post, monthly_data, category_data,
          clean_files, raised>>

Engines == {"pandas", "duckdb"}

(***************************************************************************)
(* Numbers.  Means and rates are fractions, kept exact.                    *)
(***************************************************************************)
NaN == <<0, 0>>
NaT == <<0, 0, 0>>

Abs(n) == IF n < 0 THEN -n ELSE n

RECURSIVE Gcd(_, _)
Gcd(a, b) == IF b = 0 THEN a ELSE Gcd(b, a % b)

\* n/d in lowest terms with a positive denominator.
Frac(n, d) ==
  LET g == Gcd(Abs(n), Abs(d))
      s == IF d < 0 THEN -1 ELSE 1
  IN  <<(s * n) \div g, (s * d) \div g>>

Num(n) == <<n, 1>>
IsNaN(v) == v[2] = 0
IsNeg(v) == ~IsNaN(v) /\ v[1] < 0
\* x >= 0 as pandas and SQL evaluate it: false (not true) on NaN / NULL.
IsGe0(v) == ~IsNaN(v) /\ v[1] >= 0

\* IEEE addition: NaN absorbs.
FAdd(a, b) ==
  IF IsNaN(a) \/ IsNaN(b) THEN NaN
  ELSE Frac(a[1] * b[2] + b[1] * a[2], a[2] * b[2])

\* a / n for a non-zero integer n.
FDivInt(a, n) == IF IsNaN(a) THEN NaN ELSE Frac(a[1], a[2] * n)

RECURSIVE FSum(_)
FSum(s) == IF s = <<>> THEN Num(0) ELSE FAdd(Head(s), FSum(Tail(s)))

\* The mean of a non-empty sequence of numbers.
FMean(s) == FDivInt(FSum(s), Len(s))

(***************************************************************************)
(* Calendar.                                                               *)
(***************************************************************************)
isleap(y) == (y % 4 = 0) /\ ((y % 100 # 0) \/ (y % 400 = 0))

\* calendar.monthrange(year, month)[1]
monthrange(y, m) ==
  IF m = 2 THEN (IF isleap(y) THEN 29 ELSE 28)
  ELSE IF m \in {4, 6, 9, 11} THEN 30 ELSE 31

RECURSIVE DaysBeforeMonth(_, _)
DaysBeforeMonth(y, m) ==
  IF m <= 1 THEN 0 ELSE DaysBeforeMonth(y, m - 1) + monthrange(y, m - 1)

\* The day number of a date (proleptic Gregorian ordinal), for date arithmetic.
Ordinal(dt) ==
  LET y1 == dt[1] - 1
  IN  365 * y1 + (y1 \div 4) - (y1 \div 100) + (y1 \div 400)
      + DaysBeforeMonth(dt[1], dt[2]) + dt[3]

(***************************************************************************)
(* The schema catalog, once per pipeline.                                  *)
(***************************************************************************)
translated_columns ==
  "content_metrics" :> <<
       "Date", "Impressions (organic)", "Impressions (sponsored)", "Impressions (total)",
       "Unique impressions (organic)", "Clicks (organic)", "Clicks (sponsored)",
       "Clicks (total)", "Reactions (organic)", "Reactions (sponsored)",
       "Reactions (total)", "Comments (organic)", "Comments (sponsored)",
       "Comments (total)", "Shares (organic)", "Shares (sponsored)", "Shares (total)",
       "Engagement rate (organic)", "Engagement rate (sponsored)",
       "Engagement rate (total)">>
  @@ "content_posts" :> <<
       "Post Title", "Post Link", "Post Type", "Campaign Name", "Published by", "Date",
       "Campaign Start Date", "Campaign End Date", "Audience", "Impressions",
       "Views (excluding off-site video views)", "Off-site Views", "Clicks",
       "Click-Through Rate (CTR)", "Likes", "Comments", "Shares", "Followers",
       "Engagement Rate", "Content Type">>
  @@ "followers_new" :> <<
       "Date", "Followers Sponsored", "Followers Organic", "Total Followers">>
  @@ "followers_location" :> <<
       "Location", "Total Followers">>
  @@ "followers_function" :> <<
       "Function", "Total Followers">>
  @@ "followers_experience" :> <<
       "Experience Level", "Total Followers">>
  @@ "followers_industry" :> <<
       "Industry", "Total Followers">>
  @@ "followers_company_size" :> <<
       "Company Size", "Total Followers">>
  @@ "visitors_metrics" :> <<
       "Date", "Page Views Overview (Desktop)", "Page Views Overview (Mobile Devices)",
       "Page Views Overview (Total)", "Unique Visitors Overview (Desktop)",
       "Unique Visitors Overview (Mobile Devices)", "Unique Visitors Overview (Total)",
       "Page Views Day by Day (Desktop)", "Page Views Day by Day (Mobile Devices)",
       "Page Views Day by Day (Total)", "Unique Visitors Day by Day (Desktop)",
       "Unique Visitors Day by Day (Mobile Devices)",
       "Unique Visitors Day by Day (Total)", "Page Views Jobs (Desktop)",
       "Page Views Jobs (Mobile Devices)", "Page Views Jobs (Total)",
       "Unique Visitors Jobs (Desktop)", "Unique Visitors Jobs (Mobile Devices)",
       "Unique Visitors Jobs (Total)", "Total Page Views (Desktop)",
       "Total Page Views (Mobile Devices)", "Total Page Views (Total)",
       "Total Unique Visitors (Desktop)", "Total Unique Visitors (Mobile Devices)",
       "Total Unique Visitors (Total)">>
  @@ "visitors_location" :> <<
       "Location", "Total Views">>
  @@ "visitors_function" :> <<
       "Function", "Total Views">>
  @@ "visitors_experience" :> <<
       "Experience Level", "Total Views">>
  @@ "visitors_industry" :> <<
       "Industry", "Total Views">>
  @@ "visitors_company_size" :> <<
       "Company Size", "Total Views">>
  @@ "competitor" :> <<
       "Page", "Total Followers", "New Followers", "Total Post Engagements",
       "Total Posts">>

table_attributes ==
  "content_metrics" :> <<
       <<"Date", "DATE">>, <<"Impressions (organic)", "INT">>,
       <<"Impressions (sponsored)", "INT">>, <<"Impressions (total)", "INT">>,
       <<"Unique impressions (organic)", "INT">>, <<"Clicks (organic)", "INT">>,
       <<"Clicks (sponsored)", "INT">>, <<"Clicks (total)", "INT">>,
       <<"Reactions (organic)", "INT">>, <<"Reactions (sponsored)", "INT">>,
       <<"Reactions (total)", "INT">>, <<"Comments (organic)", "INT">>,
       <<"Comments (sponsored)", "INT">>, <<"Comments (total)", "INT">>,
       <<"Shares (organic)", "INT">>, <<"Shares (sponsored)", "INT">>,
       <<"Shares (total)", "INT">>, <<"Engagement rate (organic)", "DOUBLE">>,
       <<"Engagement rate (sponsored)", "DOUBLE">>,
       <<"Engagement rate (total)", "DOUBLE">>>>
  @@ "content_posts" :> <<
       <<"Post Title", "VARCHAR">>, <<"Post Link", "VARCHAR">>,
       <<"Post Type", "VARCHAR">>, <<"Campaign Name", "VARCHAR">>,
       <<"Published by", "VARCHAR">>, <<"Date", "DATE">>,
       <<"Campaign Start Date", "DATE">>, <<"Campaign End Date", "DATE">>,
       <<"Audience", "VARCHAR">>, <<"Impressions", "INT">>,
       <<"Views (excluding off-site video views)", "INT">>, <<"Off-site Views", "INT">>,
       <<"Clicks", "INT">>, <<"Click-Through Rate (CTR)", "FLOAT">>, <<"Likes", "INT">>,
       <<"Comments", "INT">>, <<"Shares", "INT">>, <<"Followers", "INT">>,
       <<"Engagement Rate", "FLOAT">>, <<"Content Type", "VARCHAR">>>>
  @@ "followers_new" :> <<
       <<"Date", "DATE">>, <<"Followers Sponsored", "INT">>,
       <<"Followers Organic", "INT">>, <<"Total Followers", "INT">>>>
  @@ "followers_location" :> <<
       <<"Location", "VARCHAR">>, <<"Total Followers", "INT">>>>
  @@ "followers_function" :> <<
       <<"Function", "VARCHAR">>, <<"Total Followers", "INT">>>>
  @@ "followers_experience" :> <<
       <<"Experience Level", "VARCHAR">>, <<"Total Followers", "INT">>>>
  @@ "followers_industry" :> <<
       <<"Industry", "VARCHAR">>, <<"Total Followers", "INT">>>>
  @@ "followers_company_size" :> <<
       <<"Company Size", "VARCHAR">>, <<"Total Followers", "INT">>>>
  @@ "visitors_metrics" :> <<
       <<"Date", "DATE">>, <<"Page Views Overview (Desktop)", "INT">>,
       <<"Page Views Overview (Mobile Devices)", "INT">>,
       <<"Page Views Overview (Total)", "INT">>,
       <<"Unique Visitors Overview (Desktop)", "INT">>,
       <<"Unique Visitors Overview (Mobile Devices)", "INT">>,
       <<"Unique Visitors Overview (Total)", "INT">>,
       <<"Page Views Day by Day (Desktop)", "INT">>,
       <<"Page Views Day by Day (Mobile Devices)", "INT">>,
       <<"Page Views Day by Day (Total)", "INT">>,
       <<"Unique Visitors Day by Day (Desktop)", "INT">>,
       <<"Unique Visitors Day by Day (Mobile Devices)", "INT">>,
       <<"Unique Visitors Day by Day (Total)", "INT">>,
       <<"Page Views Jobs (Desktop)", "INT">>,
       <<"Page Views Jobs (Mobile Devices)", "INT">>,
       <<"Page Views Jobs (Total)", "INT">>, <<"Unique Visitors Jobs (Desktop)", "INT">>,
       <<"Unique Visitors Jobs (Mobile Devices)", "INT">>,
       <<"Unique Visitors Jobs (Total)", "INT">>, <<"Total Page Views (Desktop)", "INT">>,
       <<"Total Page Views (Mobile Devices)", "INT">>,
       <<"Total Page Views (Total)", "INT">>,
       <<"Total Unique Visitors (Desktop)", "INT">>,
       <<"Total Unique Visitors (Mobile Devices)", "INT">>,
       <<"Total Unique Visitors (Total)", "INT">>>>
  @@ "visitors_location" :> <<
       <<"Location", "VARCHAR">>, <<"Total Views", "INT">>>>
  @@ "visitors_function" :> <<
       <<"Function", "VARCHAR">>, <<"Total Views", "INT">>>>
  @@ "visitors_experience" :> <<
       <<"Experience Level", "VARCHAR">>, <<"Total Views", "INT">>>>
  @@ "visitors_industry" :> <<
       <<"Industry", "VARCHAR">>, <<"Total Views", "INT">>>>
  @@ "visitors_company_size" :> <<
       <<"Company Size", "VARCHAR">>, <<"Total Views", "INT">>>>
  @@ "competitor" :> <<
       <<"Page", "VARCHAR">>, <<"Total Followers", "INT">>, <<"New Followers", "INT">>,
       <<"Total Post Engagements", "FLOAT">>, <<"Total Posts", "INT">>>>

map_months_period ==
     <<2023, "Jan", 1>> :> <<2023, 1, 15>> @@ <<2023, "Jan", 2>> :> <<2023, 1, 31>>
  @@ <<2023, "Fev", 1>> :> <<2023, 2, 15>> @@ <<2023, "Fev", 2>> :> <<2023, 2, 28>>
  @@ <<2023, "Mar", 1>> :> <<2023, 3, 15>> @@ <<2023, "Mar", 2>> :> <<2023, 3, 31>>
  @@ <<2023, "Abr", 1>> :> <<2023, 4, 15>> @@ <<2023, "Abr", 2>> :> <<2023, 4, 30>>
  @@ <<2023, "Mai", 1>> :> <<2023, 5, 15>> @@ <<2023, "Mai", 2>> :> <<2023, 5, 31>>
  @@ <<2023, "Jun", 1>> :> <<2023, 6, 15>> @@ <<2023, "Jun", 2>> :> <<2023, 6, 30>>
  @@ <<2023, "Jul", 1>> :> <<2023, 7, 15>> @@ <<2023, "Jul", 2>> :> <<2023, 7, 31>>
  @@ <<2023, "Ago", 1>> :> <<2023, 8, 15>> @@ <<2023, "Ago", 2>> :> <<2023, 8, 31>>
  @@ <<2023, "Set", 1>> :> <<2023, 9, 15>> @@ <<2023, "Set", 2>> :> <<2023, 9, 30>>
  @@ <<2023, "Out", 1>> :> <<2023, 10, 15>> @@ <<2023, "Out", 2>> :> <<2023, 10, 31>>
  @@ <<2023, "Nov", 1>> :> <<2023, 11, 15>> @@ <<2023, "Nov", 2>> :> <<2023, 11, 30>>
  @@ <<2023, "Dez", 1>> :> <<2023, 12, 15>> @@ <<2023, "Dez", 2>> :> <<2023, 12, 31>>
  @@ <<2024, "Jan", 1>> :> <<2024, 1, 15>> @@ <<2024, "Jan", 2>> :> <<2024, 1, 31>>
  @@ <<2024, "Fev", 1>> :> <<2024, 2, 15>> @@ <<2024, "Fev", 2>> :> <<2024, 2, 29>>
  @@ <<2024, "Mar", 1>> :> <<2024, 3, 15>> @@ <<2024, "Mar", 2>> :> <<2024, 3, 31>>
  @@ <<2024, "Abr", 1>> :> <<2024, 4, 15>> @@ <<2024, "Abr", 2>> :> <<2024, 4, 30>>
  @@ <<2024, "Mai", 1>> :> <<2024, 5, 15>> @@ <<2024, "Mai", 2>> :> <<2024, 5, 31>>
  @@ <<2024, "Jun", 1>> :> <<2024, 6, 15>> @@ <<2024, "Jun", 2>> :> <<2024, 6, 30>>
  @@ <<2024, "Jul", 1>> :> <<2024, 7, 15>> @@ <<2024, "Jul", 2>> :> <<2024, 7, 31>>
  @@ <<2024, "Ago", 1>> :> <<2024, 8, 15>> @@ <<2024, "Ago", 2>> :> <<2024, 8, 31>>
  @@ <<2024, "Set", 1>> :> <<2024, 9, 15>> @@ <<2024, "Set", 2>> :> <<2024, 9, 30>>
  @@ <<2024, "Out", 1>> :> <<2024, 10, 15>> @@ <<2024, "Out", 2>> :> <<2024, 10, 31>>
  @@ <<2024, "Nov", 1>> :> <<2024, 11, 15>> @@ <<2024, "Nov", 2>> :> <<2024, 11, 30>>
  @@ <<2024, "Dez", 1>> :> <<2024, 12, 15>> @@ <<2024, "Dez", 2>> :> <<2024, 12, 31>>

\* The pandas pipeline keeps no types: its date columns are listed apart.
date_columns ==
     "content_metrics" :> <<"Date">>
  @@ "content_posts" :> <<"Date", "Campaign Start Date", "Campaign End Date">>
  @@ "followers_new" :> <<"Date">>
  @@ "visitors_metrics" :> <<"Date">>

\* category_keys short of the last visitors sheet: not what the code has.
category_keys_without_one ==
     "competitor" :> <<"competitor">>
  @@ "content" :> <<"content_metrics", "content_posts">>
  @@ "followers" :> <<"followers_new", "followers_location", "followers_function",
                      "followers_experience", "followers_industry",
                      "followers_company_size">>
  @@ "visitors" :> <<"visitors_metrics", "visitors_location", "visitors_function",
                     "visitors_experience", "visitors_industry">>

\* The sheets read_excel_file reads for a file of each category, by position.
category_keys ==
     "competitor" :> <<"competitor">>
  @@ "content" :> <<"content_metrics", "content_posts">>
  @@ "followers" :> <<"followers_new", "followers_location", "followers_function",
                      "followers_experience", "followers_industry",
                      "followers_company_size">>
  @@ "visitors" :> <<"visitors_metrics", "visitors_location", "visitors_function",
                     "visitors_experience", "visitors_industry",
                     "visitors_company_size">>

\* add_final_date's month tokens, pandas pipeline.
month_order_pt ==
     "Jan" :> 1 @@ "Fev" :> 2 @@ "Mar" :> 3 @@ "Abr" :> 4 @@ "Maio" :> 5
  @@ "Jun" :> 6 @@ "Jul" :> 7 @@ "Ago" :> 8 @@ "Set" :> 9 @@ "Out" :> 10
  @@ "Nov" :> 11 @@ "Dez" :> 12

(***************************************************************************)
(* Frames: [columns |-> sequence of names, rows |-> sequence of rows], a   *)
(* row being the sequence of its cells in column order.                    *)
(***************************************************************************)
RECURSIVE Flatten(_)
Flatten(ss) == IF ss = <<>> THEN <<>> ELSE Head(ss) \o Flatten(Tail(ss))

HasCol(columns, name) == \E i \in 1..Len(columns) : columns[i] = name

\* The position of the first column called name.
ColIndex(columns, name) ==
  CHOOSE i \in 1..Len(columns) :
    /\ columns[i] = name
    /\ \A j \in 1..(i - 1) : columns[j] # name

Cell(df, r, name) == df.rows[r][ColIndex(df.columns, name)]

\* df[name] = values (one per row): replaces the column, or appends it.
SetCol(df, name, values) ==
  IF HasCol(df.columns, name)
  THEN [df EXCEPT !.rows =
          [r \in 1..Len(df.rows) |->
             [df.rows[r] EXCEPT ![ColIndex(df.columns, name)] = values[r]]]]
  ELSE [columns |-> Append(df.columns, name),
        rows |-> [r \in 1..Len(df.rows) |-> Append(df.rows[r], values[r])]]

\* dict.get(key) finding nothing; no entry of a catalog is empty.
None == <<>>

\* d.get(key, <the competitor entry>): what neither pipeline writes.
GetWithDefault(d, key) == IF key \in DOMAIN d THEN d[key] ELSE d["competitor"]

\* d.get(key)
Get(d, key) == IF key \in DOMAIN d THEN d[key] ELSE None

\* A renaming by name, which neither pipeline does: a column already under
\* one of the labels keeps its name.
SetColumnsKeepingKnown(df, labels) ==
  [df EXCEPT !.columns =
     [i \in 1..Len(labels) |->
        IF HasCol(labels, df.columns[i]) THEN df.columns[i] ELSE labels[i]]]

\* df.columns = labels, for as many labels as df has columns: the i-th column
\* is now called labels[i], its cells stay.
SetColumns(df, labels) == [df EXCEPT !.columns = labels]

\* df[[names]]: the named columns, in the order asked for.
SelectCols(df, names) ==
  [columns |-> names,
   rows |-> [r \in 1..Len(df.rows) |->
               [k \in 1..Len(names) |-> Cell(df, r, names[k])]]]

(***************************************************************************)
(* Control.  pc names the method main() is about to call; the loops of     *)
(* convert_pandas_to_duck and transform_data advance cur over data.        *)
(***************************************************************************)
\* The exception e leaves the method pc names and ends the run.
Raise(e) == pc' = "raised" /\ raised' = [exc |-> e, in |-> pc]

\* transform_data starting every table at add_final_date: imputation never
\* run, which is not what either pipeline does.
TransformEntryWithoutImputation(k) ==
  IF k > Len(data) THEN "load_to_clean"
  ELSE IF engine = "pandas" THEN "translate_cols"
  ELSE "add_final_date"

\* transform_data sending every DuckDB table through imputation, whatever
\* its kind: not the test transform_data makes.
TransformEntryImputingAll(k) ==
  IF k > Len(data) THEN "load_to_clean"
  ELSE IF engine = "pandas" THEN "translate_cols"
  ELSE "process_content_metrics"

\* Where transform_data starts on table k (k past the end: the loop is over).
TransformEntry(k) ==
  IF k > Len(data) THEN "load_to_clean"
  ELSE IF engine = "pandas" THEN "translate_cols"
  ELSE IF data[k].dataframe_name = "content_metrics" THEN "process_content_metrics"
  ELSE "add_final_date"

\* transform_data has finished table cur: on to the next one.
NextTable == cur' = cur + 1 /\ pc' = TransformEntry(cur + 1)

(***************************************************************************)
(* extract_data: get_raw_files walks category/year/month in the order      *)
(* os.listdir gives, numbering the files of a month directory from 1 as    *)
(* it meets them; read_excel_file reads the category's sheets of a file.   *)
(***************************************************************************)
MonthFiles(e) ==
  [i \in 1..Len(e.files) |->
     [category |-> e.files[i].category,
      dir |-> <<e.category, e.year, e.month>>,
      extraction_period |-> <<e.year, e.month, i>>,
      sheets |-> e.files[i].sheets]]

get_raw_files(raw_directory) ==
  Flatten([e \in 1..Len(raw_directory) |-> MonthFiles(raw_directory[e])])

read_excel_file(file) ==
  LET sheets_to_read == category_keys[file.category]
  IN  [k \in 1..Len(sheets_to_read) |->
         [dataframe_name |-> sheets_to_read[k],
          dir |-> file.dir,
          extraction_period |-> file.extraction_period,
          df |-> file.sheets[sheets_to_read[k]]]]

extract_data ==
  /\ pc = "extract_data"
  /\ LET files == get_raw_files(listing)
     IN  IF \E i \in 1..Len(files) : files[i].category \notin DOMAIN category_keys
         THEN /\ Raise("KeyError")
              /\ UNCHANGED <<data, cur>>
         ELSE LET read == Flatten([i \in 1..Len(files) |-> read_excel_file(files[i])])
              IN  /\ data' = read
                  /\ cur' = 1
                  /\ pc' = IF read = <<>> THEN "load_to_clean"
                           ELSE IF engine = "pandas" THEN "translate_cols"
                           ELSE "load_data_from_pandas"
                  /\ UNCHANGED raised
  /\ UNCHANGED <<engine, listing, tables, db, pre, post, monthly_data, category_data,
                 clean_files>>

(***************************************************************************)
(* The pandas pipeline's transform_data, one method per action.            *)
(***************************************************************************)
translate_cols ==
  /\ engine = "pandas" /\ pc = "translate_cols"
  /\ LET labels == Get(translated_columns, data[cur].dataframe_name)
     IN  IF labels = None
         THEN Raise("TypeError") /\ UNCHANGED data
         ELSE IF Len(labels) # Len(data[cur].df.columns)
         THEN Raise("ValueError") /\ UNCHANGED data
         ELSE /\ data' = [data EXCEPT ![cur].df = SetColumns(@, labels)]
              /\ pc' = "add_final_date"
              /\ UNCHANGED raised
  /\ UNCHANGED <<engine, cur, listing, tables, db, pre, post, monthly_data,
                 category_data, clean_files>>

\* The text f"{year}-{month}-{day}" for an extraction period <<year, token, i>>.
FinalDatePandas(extraction_period) ==
  LET year == extraction_period[1]
      month == month_order_pt[extraction_period[2]]
      day == IF extraction_period[3] = 2 THEN monthrange(year, month) ELSE 15
  IN  <<"iso", year, month, day>>

add_final_date_pandas ==
  /\ engine = "pandas" /\ pc = "add_final_date"
  /\ LET d == data[cur]
     IN  IF d.extraction_period[2] \notin DOMAIN month_order_pt
         THEN Raise("KeyError") /\ UNCHANGED data
         ELSE /\ data' = [data EXCEPT ![cur].df =
                           SetCol(d.df, "Extraction Range",
                                  [r \in 1..Len(d.df.rows) |->
                                     FinalDatePandas(d.extraction_period)])]
              /\ pc' = "convert_column_types"
              /\ UNCHANGED raised
  /\ UNCHANGED <<engine, cur, listing, tables, db, pre, post, monthly_data,
                 category_data, clean_files>>

IsValidDate(y, m, d) == m \in 1..12 /\ d \in 1..monthrange(y, m)

\* The cell is text that reads as a date in the format: "mdY" and "dmY" read
\* a/b/year text as month/day and as day/month, "iso" reads year-month-day.
Parses(c, format) ==
  /\ Len(c) = 4
  /\ CASE format = "mdY" -> c[1] = "mdY" /\ IsValidDate(c[4], c[2], c[3])
       [] format = "dmY" -> c[1] = "mdY" /\ IsValidDate(c[4], c[3], c[2])
       [] format = "iso" -> c[1] = "iso" /\ IsValidDate(c[2], c[3], c[4])
       [] OTHER -> FALSE

Parsed(c, format) ==
  CASE format = "mdY" -> <<c[4], c[2], c[3]>>
    [] format = "dmY" -> <<c[4], c[3], c[2]>>
    [] OTHER -> <<c[2], c[3], c[4]>>

\* How the date parser reads one text cell when dayfirst is not asked for:
\* month first, and day first when that gives no date.
ReadAs(c) ==
  IF Parses(c, "mdY") THEN "mdY"
  ELSE IF Parses(c, "dmY") THEN "dmY"
  ELSE IF Parses(c, "iso") THEN "iso"
  ELSE "none"

\* Text that holds something: the empty string is a missing value to
\* pd.to_datetime.
IsText(c) == Len(c) \in {1, 4} /\ c # <<"">>

\* pd.to_datetime can read the cell on its own.
CanParseDatetime(c) == IsText(c) => ReadAs(c) # "none"

\* pd.to_datetime of one cell on its own: date text becomes a date, a missing
\* value or empty string becomes NaT, a date stays, an integer counts
\* nanoseconds from 1970-01-01.
to_datetime(c) ==
  CASE IsText(c) -> Parsed(c, ReadAs(c))
    [] Len(c) = 3 -> c
    [] OTHER -> IF c = <<"">> \/ IsNaN(c) THEN NaT ELSE <<1970, 1, 1>>

\* pd.to_datetime(series) is called without a format, and the pandas the
\* pipeline runs on is not pinned: before 2.0 every cell is read on its own,
\* from 2.0 the format is guessed from the first text cell and every text
\* cell must match it.
PandasVersions == {"1", "2"}

\* The format pandas 2 guesses for the column ("none": no text, or no guess).
GuessedFormat(cells) ==
  IF \E r \in 1..Len(cells) : IsText(cells[r])
  THEN ReadAs(cells[CHOOSE r \in 1..Len(cells) :
                      IsText(cells[r]) /\ \A t \in 1..(r - 1) : ~IsText(cells[t])])
  ELSE "none"

\* The format row r of the column is read in.
FormatOfRow(cells, version, r) ==
  IF version = "1" THEN ReadAs(cells[r]) ELSE GuessedFormat(cells)

CanParseSeries(cells, version) ==
  \A r \in 1..Len(cells) :
    IsText(cells[r]) => Parses(cells[r], FormatOfRow(cells, version, r))

to_datetime_series(cells, version) ==
  [r \in 1..Len(cells) |->
     IF IsText(cells[r]) THEN Parsed(cells[r], FormatOfRow(cells, version, r))
     ELSE to_datetime(cells[r])]

\* The loop of convert_column_types over columns: the frame it leaves (the
\* columns before a failing one are converted) and the exception, if any.
RECURSIVE ConvertColumns(_, _, _)
ConvertColumns(df, columns, version) ==
  IF columns = <<>> THEN [df |-> df, exc |-> "none"]
  ELSE IF ~HasCol(df.columns, Head(columns)) THEN [df |-> df, exc |-> "KeyError"]
  ELSE LET cells == [r \in 1..Len(df.rows) |-> Cell(df, r, Head(columns))]
       IN  IF ~CanParseSeries(cells, version) THEN [df |-> df, exc |-> "ValueError"]
           ELSE ConvertColumns(
                  SetCol(df, Head(columns), to_datetime_series(cells, version)),
                  Tail(columns), version)

convert_column_types ==
  /\ engine = "pandas" /\ pc = "convert_column_types"
  /\ \E version \in PandasVersions :
       LET d == data[cur]
           name == d.dataframe_name
           columns_to_convert ==
             Append(IF name \in DOMAIN date_columns THEN date_columns[name] ELSE <<>>,
                    "Extraction Range")
           converted == ConvertColumns(d.df, columns_to_convert, version)
       IN  /\ data' = [data EXCEPT ![cur].df = converted.df]
           /\ IF converted.exc # "none"
              THEN Raise(converted.exc) /\ UNCHANGED cur
              ELSE /\ IF name = "content_metrics"
                      THEN pc' = "clean_content_metrics_data" /\ UNCHANGED cur
                      ELSE NextTable
                   /\ UNCHANGED raised
  /\ UNCHANGED <<engine, listing, tables, db, pre, post, monthly_data, category_data,
                 clean_files>>

(***************************************************************************)
(* Imputation of content_metrics.                                          *)
(***************************************************************************)
Families == <<"Reactions", "Comments", "Shares", "Clicks">>

TotalColumn(f) ==
  CASE f = "Reactions" -> "Reactions (total)"
    [] f = "Comments" -> "Comments (total)"
    [] f = "Shares" -> "Shares (total)"
    [] f = "Clicks" -> "Clicks (total)"

\* The "(positive)" series of a family: the total where it is >= 0, else 0.
Positive(df, f) ==
  [r \in 1..Len(df.rows) |->
     IF IsGe0(Cell(df, r, TotalColumn(f))) THEN Cell(df, r, TotalColumn(f))
     ELSE Num(0)]

window == 3

\* Series.rolling(window).mean(): over the rows as they lie in the frame;
\* min_periods defaults to the window, so the first window - 1 rows get NaN.
RollingMean(s) ==
  [r \in 1..Len(s) |->
     IF r < window THEN NaN
     ELSE FMean([k \in 1..window |-> s[r - window + k]])]

\* The columns clean_content_metrics_data keeps, on the way in ...
CleanInputColumns ==
  <<"Date", "Impressions (total)", "Clicks (total)", "Reactions (total)",
    "Comments (total)", "Shares (total)", "Engagement rate (total)",
    "Extraction Range">>

\* ... and on the way out.
CleanOutputColumns ==
  <<"Date", "Impressions (total)", "Clicks (total)", "Reactions (total)",
    "Comments (total)", "Shares (total)", "Engagement Rate (total)",
    "Extraction Range">>

\* The total of a family after the repair: the moving average where the
\* total is negative, the total itself otherwise.
RepairedPandas(df, f) ==
  LET ma == RollingMean(Positive(df, f))
  IN  [r \in 1..Len(df.rows) |->
         IF IsNeg(Cell(df, r, TotalColumn(f))) THEN ma[r]
         ELSE Cell(df, r, TotalColumn(f))]

RECURSIVE RepairAll(_, _)
RepairAll(df, fams) ==
  IF fams = <<>> THEN df
  ELSE RepairAll(SetCol(df, TotalColumn(Head(fams)), RepairedPandas(df, Head(fams))),
                 Tail(fams))

\* The four totals of row r added up, in the order of the lambda.
EngagementSum(df, r) ==
  FAdd(FAdd(FAdd(Cell(df, r, "Reactions (total)"), Cell(df, r, "Comments (total)")),
            Cell(df, r, "Clicks (total)")),
       Cell(df, r, "Shares (total)"))

\* a / b for b # 0 (NaN if either is NaN).
FDiv(a, b) ==
  IF IsNaN(a) \/ IsNaN(b) THEN NaN ELSE Frac(a[1] * b[2], a[2] * b[1])

\* A row of the frame holds Python objects (the frame mixes dates and
\* numbers), so dividing by an impressions count of 0 raises.
DividesByZero(df) ==
  \E r \in 1..Len(df.rows) :
    LET imp == Cell(df, r, "Impressions (total)")
    IN  ~IsNaN(imp) /\ imp[1] = 0

clean_content_metrics_data ==
  /\ engine = "pandas" /\ pc = "clean_content_metrics_data"
  /\ LET d == data[cur]
     IN  IF \E k \in 1..Len(CleanInputColumns) :
                ~HasCol(d.df.columns, CleanInputColumns[k])
         THEN Raise("KeyError") /\ UNCHANGED <<data, cur, pre, post>>
         ELSE LET df == SelectCols(d.df, CleanInputColumns)
                  repaired == RepairAll(df, Families)
              IN  IF DividesByZero(repaired)
                  THEN Raise("ZeroDivisionError") /\ UNCHANGED <<data, cur, pre, post>>
                  ELSE LET rated ==
                             SetCol(repaired, "Engagement Rate (total)",
                                    [r \in 1..Len(repaired.rows) |->
                                       FDiv(EngagementSum(repaired, r),
                                            Cell(repaired, r, "Impressions (total)"))])
                       IN  /\ data' = [data EXCEPT ![cur].df =
                                         SelectCols(rated, CleanOutputColumns)]
                           /\ pre' = (cur :> d.df) @@ pre
                           /\ post' = (cur :> SelectCols(rated, CleanOutputColumns)) @@ post
                           /\ NextTable
                           /\ UNCHANGED raised
  /\ UNCHANGED <<engine, listing, tables, db, monthly_data, category_data,
                 clean_files>>

(***************************************************************************)
(* The DuckDB pipeline: load_data_from_pandas creates and fills one typed  *)
(* table per frame; transform_data then works on the tables of self.con.   *)
(***************************************************************************)
\* f"{dataframe_name}_{extraction_period}"
DbTableName(d) == <<d.dataframe_name>> \o d.extraction_period

\* CAST(x AS INT) of a DOUBLE rounds to the nearest integer, ties to even.
RoundHalfEven(v) ==
  LET q == v[1] \div v[2]
      r == v[1] % v[2]
  IN  IF 2 * r < v[2] THEN Num(q)
      ELSE IF 2 * r > v[2] THEN Num(q + 1)
      ELSE IF q % 2 = 0 THEN Num(q) ELSE Num(q + 1)

IsNull(c) == c = NaN \/ c = NaT

\* The INSERT's SELECT can convert the cell to the column's type.
CanCast(dtype, c) ==
  CASE dtype = "DATE" ->
         \/ IsNull(c)
         \/ c = <<"">>
         \/ Len(c) = 4 /\ c[1] = "mdY" /\ IsValidDate(c[4], c[2], c[3])
    [] dtype \in {"INT", "DOUBLE", "FLOAT"} -> Len(c) = 2
    [] OTHER -> TRUE

\* The cell as the INSERT stores it: DATE columns go through
\* CASE WHEN x IS NULL OR x = '' THEN NULL ELSE STRPTIME(x, '%m/%d/%Y') END,
\* the others through the implicit cast to the column's type.
CastTo(dtype, c) ==
  CASE dtype = "DATE" -> IF IsNull(c) \/ c = <<"">> THEN NaT ELSE <<c[4], c[2], c[3]>>
    [] dtype = "INT" -> IF IsNaN(c) THEN NaN ELSE RoundHalfEven(c)
    [] dtype \in {"DOUBLE", "FLOAT"} -> c
    [] OTHER -> IF Len(c) = 1 \/ IsNull(c) THEN c ELSE <<ToString(c)>>

load_data_from_pandas ==
  /\ engine = "duckdb" /\ pc = "load_data_from_pandas"
  /\ LET d == data[cur]
         name == d.dataframe_name
         db_table_name == DbTableName(d)
         table_attribute == Get(table_attributes, name)
     IN  IF table_attribute = None
         THEN Raise("AttributeError") /\ UNCHANGED <<data, tables, db, cur>>
         ELSE LET translated == [k \in 1..Len(table_attribute) |->
                                   table_attribute[k][1]]
              IN  IF Len(translated) # Len(d.df.columns)
                  THEN Raise("ValueError") /\ UNCHANGED <<data, tables, db, cur>>
                  ELSE IF db_table_name \in DOMAIN db
                  THEN /\ Raise("CatalogException")
                       /\ data' = [data EXCEPT ![cur].df = SetColumns(@, translated)]
                       /\ UNCHANGED <<tables, db, cur>>
                  ELSE IF \E r \in 1..Len(d.df.rows), k \in 1..Len(translated) :
                            ~CanCast(table_attribute[k][2], d.df.rows[r][k])
                  THEN \* the table is created, the INSERT fails
                       /\ Raise("ConversionException")
                       /\ data' = [data EXCEPT ![cur].df = SetColumns(@, translated)]
                       /\ db' = (db_table_name :>
                                   [columns |-> translated, rows |-> <<>>]) @@ db
                       /\ UNCHANGED <<tables, cur>>
                  ELSE /\ data' = [data EXCEPT ![cur].df = SetColumns(@, translated)]
                       /\ db' = (db_table_name :>
                                   [columns |-> translated,
                                    rows |-> [r \in 1..Len(d.df.rows) |->
                                                [k \in 1..Len(translated) |->
                                                   CastTo(table_attribute[k][2],
                                                          d.df.rows[r][k])]]])
                                @@ db
                       /\ tables' = Append(tables,
                                      [dataframe_name |-> name,
                                       extraction_period |-> d.extraction_period,
                                       db_table_name |-> db_table_name,
                                       export_dir |-> d.dir])
                       /\ IF cur < Len(data)
                          THEN cur' = cur + 1 /\ UNCHANGED pc
                          ELSE cur' = 1 /\ pc' = TransformEntry(1)
                       /\ UNCHANGED raised
  /\ UNCHANGED <<engine, listing, pre, post, monthly_data, category_data, clean_files>>

\* The rows t2 of the table with t2.Date BETWEEN t1.Date - 2 AND t1.Date, in
\* row order.  No row qualifies when t1.Date is NULL; a NULL t2.Date never does.
RECURSIVE DateWindow(_, _, _)
DateWindow(df, t1, upto) ==
  IF upto = 0 THEN <<>>
  ELSE LET rest == DateWindow(df, t1, upto - 1)
           d1 == Cell(df, t1, "Date")
           d2 == Cell(df, upto, "Date")
       IN  IF /\ d1 # NaT
              /\ d2 # NaT
              /\ Ordinal(d2) >= Ordinal(d1) - 2
              /\ Ordinal(d2) <= Ordinal(d1)
           THEN Append(rest, upto)
           ELSE rest

\* (SELECT AVG("<family> (positive)") FROM temp t2 WHERE t2."Date" BETWEEN
\* t1."Date" - 2 AND t1."Date"): NULL over no rows.
WindowAvg(df, f, t1) ==
  LET rows == DateWindow(df, t1, Len(df.rows))
      positive == Positive(df, f)
  IN  IF rows = <<>> THEN NaN
      ELSE FMean([k \in 1..Len(rows) |-> positive[rows[k]]])

\* The rows with a total that is not >= 0: the only ones whose moving average
\* reaches a "(final)" column.
Averaged(df) ==
  {r \in 1..Len(df.rows) : \E f \in 1..Len(Families) :
     ~IsGe0(Cell(df, r, TotalColumn(Families[f])))}

\* "<family> (final)" of row r, the moving-average UPDATE having taken row
\* avgOf[r]'s window for it.
FinalValue(df, f, r, avgOf) ==
  IF IsGe0(Cell(df, r, TotalColumn(f))) THEN Cell(df, r, TotalColumn(f))
  ELSE WindowAvg(df, f, avgOf[r])

\* The rows of the temporary table that the last UPDATE joins to row r:
\* those with the same Date (none for a NULL Date).
SameDate(df, r) ==
  {t \in 1..Len(df.rows) :
     Cell(df, r, "Date") # NaT /\ Cell(df, t, "Date") = Cell(df, r, "Date")}

\* The table after process_content_metrics, when the moving-average UPDATE
\* took row avgOf[t]'s window for row t and the last UPDATE took the final
\* values of row joined[r] for row r.  Totals are INT columns: the DOUBLE
\* final value is rounded on assignment.
RECURSIVE CopyFinal(_, _, _, _, _)
CopyFinal(df, orig, fams, avgOf, joined) ==
  IF fams = <<>> THEN df
  ELSE CopyFinal(
         SetCol(df, TotalColumn(Head(fams)),
                [r \in 1..Len(orig.rows) |->
                   IF SameDate(orig, r) = {} THEN Cell(orig, r, TotalColumn(Head(fams)))
                   ELSE LET v == FinalValue(orig, Head(fams), joined[r], avgOf)
                        IN  IF IsNaN(v) THEN NaN ELSE RoundHalfEven(v)]),
         orig, Tail(fams), avgOf, joined)

process_content_metrics ==
  /\ engine = "duckdb" /\ pc = "process_content_metrics"
  /\ LET table == tables[cur].db_table_name
         temp == Append(table, "temp")
         t == db[table]
         n == Len(t.rows)
     IN  IF temp \in DOMAIN db
         THEN Raise("CatalogException") /\ UNCHANGED <<db, pre, post>>
         ELSE \* UPDATE temp SET ... FROM temp t1 has no join condition, and
              \* the last UPDATE joins on Date alone: where several rows
              \* match, which one is used is not determined.
              \E avgOf \in [Averaged(t) -> 1..n] :
              \E joined \in [1..n -> 1..n] :
                /\ \A r \in 1..n : SameDate(t, r) # {} => joined[r] \in SameDate(t, r)
                /\ \A r \in 1..n : SameDate(t, r) = {} => joined[r] = r
                /\ LET updated == CopyFinal(t, t, Families, avgOf, joined)
                   IN  /\ db' = [db EXCEPT ![table] = updated]
                       /\ post' = (cur :> updated) @@ post
                /\ pre' = (cur :> t) @@ pre
                /\ pc' = "add_final_date"
                /\ UNCHANGED raised
  /\ UNCHANGED <<engine, cur, listing, data, tables, monthly_data, category_data,
                 clean_files>>

add_final_date_duckdb ==
  /\ engine = "duckdb" /\ pc = "add_final_date"
  /\ LET table == tables[cur]
     IN  IF table.extraction_period \notin DOMAIN map_months_period
         THEN Raise("KeyError") /\ UNCHANGED <<db, cur>>
         ELSE LET final_date == map_months_period[table.extraction_period]
                  t == db[table.db_table_name]
              IN  /\ db' = [db EXCEPT ![table.db_table_name] =
                              SetCol(t, "Extraction Range",
                                     [r \in 1..Len(t.rows) |-> final_date])]
                  /\ NextTable
                  /\ UNCHANGED raised
  /\ UNCHANGED <<engine, listing, data, tables, pre, post, monthly_data, category_data,
                 clean_files>>

(***************************************************************************)
(* Export of the per-extraction tables.  clean_files lists every CSV        *)
(* written, in order: [dir, file, df].                                     *)
(***************************************************************************)
load_to_clean ==
  /\ pc = "load_to_clean"
  /\ clean_files' = clean_files \o
       (IF engine = "pandas"
        THEN [k \in 1..Len(data) |->
                [dir |-> data[k].dir,
                 file |-> <<data[k].dataframe_name, data[k].extraction_period[3]>>,
                 df |-> data[k].df]]
        ELSE [k \in 1..Len(tables) |->
                [dir |-> tables[k].export_dir,
                 file |-> tables[k].db_table_name,
                 df |-> db[tables[k].db_table_name]]])
  /\ pc' = "concatenate_monthly"
  /\ UNCHANGED <<engine, cur, listing, data, tables, db, pre, post, monthly_data,
                 category_data, raised>>

(***************************************************************************)
(* Monthly aggregation.                                                    *)
(***************************************************************************)
HasKey(groups, key) == \E g \in 1..Len(groups) : groups[g].key = key

KeyIndex(groups, key) == CHOOSE g \in 1..Len(groups) : groups[g].key = key

\* The columns of pd.concat's result: those of the first frame, then any
\* other column in the order met.
RECURSIVE ConcatColumns(_)
ConcatColumns(dfs) ==
  IF dfs = <<>> THEN <<>>
  ELSE LET before == ConcatColumns(SubSeq(dfs, 1, Len(dfs) - 1))
           last == dfs[Len(dfs)].columns
       IN  before \o SelectSeq(last, LAMBDA c : ~HasCol(before, c))

\* pd.concat(dfs): the rows of the frames one frame after the other; a frame
\* lacking a column of the result gets NaN there.
pd_concat(dfs) ==
  LET columns == ConcatColumns(dfs)
      Widen(df) ==
        [r \in 1..Len(df.rows) |->
           [k \in 1..Len(columns) |->
              IF HasCol(df.columns, columns[k]) THEN Cell(df, r, columns[k])
              ELSE NaN]]
  IN  [columns |-> columns, rows |-> Flatten([i \in 1..Len(dfs) |-> Widen(dfs[i])])]

\* The grouping loop of concatenate_monthly_dataframes over data[1..k].
RECURSIVE GroupMonthlyPandas(_, _)
GroupMonthlyPandas(d, k) ==
  IF k = 0 THEN <<>>
  ELSE LET groups == GroupMonthlyPandas(d, k - 1)
           dataframe == d[k]
           tag_month == <<dataframe.extraction_period[1],
                          dataframe.extraction_period[2],
                          dataframe.dataframe_name>>
       IN  IF HasKey(groups, tag_month)
           THEN [groups EXCEPT ![KeyIndex(groups, tag_month)].dfs =
                   Append(@, dataframe.df)]
           ELSE Append(groups, [key |-> tag_month,
                                category |-> dataframe.dataframe_name,
                                export_dir |-> dataframe.dir,
                                dfs |-> <<dataframe.df>>])

concatenate_monthly_dataframes ==
  /\ engine = "pandas" /\ pc = "concatenate_monthly"
  /\ LET grouped_data_month == GroupMonthlyPandas(data, Len(data))
     IN  monthly_data' =
           [g \in 1..Len(grouped_data_month) |->
              [key |-> grouped_data_month[g].key,
               category |-> grouped_data_month[g].category,
               export_dir |-> grouped_data_month[g].export_dir,
               dfs |-> grouped_data_month[g].dfs,
               concatenated_df |-> pd_concat(grouped_data_month[g].dfs)]]
  /\ pc' = "export_month"
  /\ UNCHANGED <<engine, cur, listing, data, tables, db, pre, post, category_data,
                 clean_files, raised>>

\* The grouping loop of concatenate_monthly_tables over tables[1..k].
RECURSIVE GroupMonthlyDuck(_, _)
GroupMonthlyDuck(ts, k) ==
  IF k = 0 THEN <<>>
  ELSE LET groups == GroupMonthlyDuck(ts, k - 1)
           table == ts[k]
           category_year_month == <<table.dataframe_name,
                                    table.extraction_period[1],
                                    table.extraction_period[2]>>
       IN  IF HasKey(groups, category_year_month)
           THEN [groups EXCEPT ![KeyIndex(groups, category_year_month)].tables =
                   Append(@, table.db_table_name)]
           ELSE Append(groups, [key |-> category_year_month,
                                category |-> table.dataframe_name,
                                export_dir |-> table.export_dir,
                                tables |-> <<table.db_table_name>>])

\* The aggregate made under the name of its first input: not what
\* CREATE OR REPLACE TABLE is given.
first_table_name(grouped_data) == grouped_data.tables[1]

\* table_name: the name the aggregate of a group is created under and
\* exported from, the group's key in its dict.
table_name(grouped_data) == grouped_data.key

\* b's rows before a's: what UNION ALL does not do.
UnionAllSwapped(a, b) == [columns |-> a.columns, rows |-> b.rows \o a.rows]

\* SELECT * FROM a UNION ALL SELECT * FROM b: a's rows, then b's, under a's
\* column names.
UnionAll(a, b) == [columns |-> a.columns, rows |-> a.rows \o b.rows]

\* The CREATE OR REPLACE loop of concatenate_monthly_tables from group g on:
\* the database it leaves and the exception that stopped it, if any.
RECURSIVE CreateMonthlyTables(_, _, _)
CreateMonthlyTables(groups, g, database) ==
  IF g > Len(groups) THEN [db |-> database, exc |-> "none"]
  ELSE IF Len(groups[g].tables) < 2 THEN [db |-> database, exc |-> "IndexError"]
  ELSE LET table_1 == database[groups[g].tables[1]]
           table_2 == database[groups[g].tables[2]]
       IN  IF Len(table_1.columns) # Len(table_2.columns)
           THEN [db |-> database, exc |-> "BinderException"]
           ELSE CreateMonthlyTables(
                  groups, g + 1,
                  (table_name(groups[g]) :> UnionAll(table_1, table_2)) @@ database)

concatenate_monthly_tables ==
  /\ engine = "duckdb" /\ pc = "concatenate_monthly"
  /\ LET groups == GroupMonthlyDuck(tables, Len(tables))
         done == CreateMonthlyTables(groups, 1, db)
     IN  /\ db' = done.db
         /\ IF done.exc # "none"
            THEN Raise(done.exc) /\ UNCHANGED monthly_data
            ELSE /\ monthly_data' = groups
                 /\ pc' = "export_month"
                 /\ UNCHANGED raised
  /\ UNCHANGED <<engine, cur, listing, data, tables, pre, post, category_data,
                 clean_files>>

\* export_dataframes (pandas) and export_tables (duckdb) over a dict.
ExportAll(groups, prefix) ==
  IF engine = "pandas"
  THEN [g \in 1..Len(groups) |->
          [dir |-> groups[g].export_dir,
           file |-> <<prefix, groups[g].category>>,
           df |-> groups[g].concatenated_df]]
  ELSE [g \in 1..Len(groups) |->
          [dir |-> groups[g].export_dir,
           file |-> <<prefix>> \o groups[g].key,
           df |-> db[table_name(groups[g])]]]

export_month ==
  /\ pc = "export_month"
  /\ clean_files' = clean_files \o ExportAll(monthly_data, "month")
  /\ pc' = "concatenate_category"
  /\ UNCHANGED <<engine, cur, listing, data, tables, db, pre, post, monthly_data,
                 category_data, raised>>

(***************************************************************************)
(* Category aggregation.                                                   *)
(***************************************************************************)
RECURSIVE GroupCategoryPandas(_, _)
GroupCategoryPandas(monthly, k) ==
  IF k = 0 THEN <<>>
  ELSE LET groups == GroupCategoryPandas(monthly, k - 1)
           dataframe == monthly[k]
       IN  IF HasKey(groups, <<dataframe.category>>)
           THEN [groups EXCEPT ![KeyIndex(groups, <<dataframe.category>>)].dfs =
                   Append(@, dataframe.concatenated_df)]
           ELSE Append(groups, [key |-> <<dataframe.category>>,
                                category |-> dataframe.category,
                                export_dir |-> <<"concatenated_dataframes">>,
                                dfs |-> <<dataframe.concatenated_df>>])

concatenate_category_dataframes ==
  /\ engine = "pandas" /\ pc = "concatenate_category"
  /\ LET grouped_data_category == GroupCategoryPandas(monthly_data, Len(monthly_data))
     IN  category_data' =
           [g \in 1..Len(grouped_data_category) |->
              [key |-> grouped_data_category[g].key,
               category |-> grouped_data_category[g].category,
               export_dir |-> grouped_data_category[g].export_dir,
               dfs |-> grouped_data_category[g].dfs,
               concatenated_df |-> pd_concat(grouped_data_category[g].dfs)]]
  /\ pc' = "export_all"
  /\ UNCHANGED <<engine, cur, listing, data, tables, db, pre, post, monthly_data,
                 clean_files, raised>>

RECURSIVE GroupCategoryDuck(_, _)
GroupCategoryDuck(monthly, k) ==
  IF k = 0 THEN <<>>
  ELSE LET groups == GroupCategoryDuck(monthly, k - 1)
           grouped_data == monthly[k]
       IN  IF HasKey(groups, <<grouped_data.category>>)
           THEN [groups EXCEPT ![KeyIndex(groups, <<grouped_data.category>>)].tables =
                   Append(@, grouped_data.key)]
           ELSE Append(groups, [key |-> <<grouped_data.category>>,
                                category |-> grouped_data.category,
                                export_dir |-> <<"concatenated_dataframes">>,
                                tables |-> <<grouped_data.key>>])

\* SELECT * FROM t1 UNION ALL SELECT * FROM t2 UNION ALL ... over the named
\* tables (at least one).
RECURSIVE UnionAllOf(_, _)
UnionAllOf(database, names) ==
  IF Len(names) = 1 THEN database[names[1]]
  ELSE UnionAll(UnionAllOf(database, SubSeq(names, 1, Len(names) - 1)),
                database[names[Len(names)]])

RECURSIVE CreateCategoryTables(_, _, _)
CreateCategoryTables(groups, g, database) ==
  IF g > Len(groups) THEN [db |-> database, exc |-> "none"]
  ELSE IF \E k \in 1..Len(groups[g].tables) :
            Len(database[groups[g].tables[k]].columns)
              # Len(database[groups[g].tables[1]].columns)
  THEN [db |-> database, exc |-> "BinderException"]
  ELSE CreateCategoryTables(
         groups, g + 1,
         (table_name(groups[g]) :> UnionAllOf(database, groups[g].tables)) @@ database)

concatenate_category_tables ==
  /\ engine = "duckdb" /\ pc = "concatenate_category"
  /\ LET groups == GroupCategoryDuck(monthly_data, Len(monthly_data))
         done == CreateCategoryTables(groups, 1, db)
     IN  /\ db' = done.db
         /\ IF done.exc # "none"
            THEN Raise(done.exc) /\ UNCHANGED category_data
            ELSE /\ category_data' = groups
                 /\ pc' = "export_all"
                 /\ UNCHANGED raised
  /\ UNCHANGED <<engine, cur, listing, data, tables, pre, post, monthly_data,
                 clean_files>>

export_all ==
  /\ pc = "export_all"
  /\ clean_files' = clean_files \o ExportAll(category_data, "all_extractions")
  /\ pc' = "done"
  /\ UNCHANGED <<engine, cur, listing, data, tables, db, pre, post, monthly_data,
                 category_data, raised>>

(***************************************************************************)
(* Inputs.  A month directory of the listing is                            *)
(*   [category, year, month, files], files in the order os.listdir gives,  *)
(* a file being [category |-> what detect_file_category finds in its name, *)
(* sheets |-> the frame pd.read_excel returns for each sheet].             *)
(***************************************************************************)
MaxFiles == 2
RowCounts == {1, 2}
Years == {2023, 2024}
Months == {"Jan", "Fev"}
PipelineCategories == {"competitor", "content"}

\* The column names of a sheet as read: not the catalog's.
RawColumns(n) == [k \in 1..n |-> "Unnamed: " \o ToString(k)]

\* A content_metrics row as read: the date as month/day/year text, the
\* impressions, the four totals in the order of Families, the total rate.
RawMetricsRow(date, imp, totals, rate) ==
  <<date, Num(imp), Num(0), Num(imp), Num(imp),
    totals[4], Num(0), totals[4],
    totals[1], Num(0), totals[1],
    totals[2], Num(0), totals[2],
    totals[3], Num(0), totals[3],
    rate, Num(0), rate>>

\* A row of any other kind, every integer cell holding the row's number id.
RawRow(kind, id) ==
  [k \in 1..Len(table_attributes[kind]) |->
     CASE table_attributes[kind][k][2] = "DATE" -> <<"mdY", 1, 15, 2024>>
       [] table_attributes[kind][k][2] = "INT" -> Num(id)
       [] table_attributes[kind][k][2] \in {"DOUBLE", "FLOAT"} -> Frac(1, 2)
       [] OTHER -> <<"text">>]

\* The sheet of kind read from the i-th file of year/month, n rows long.  Row
\* r has the number id; in content_metrics it is the reactions total, and the
\* second row has a negative clicks total.
RawFrame(kind, year, month, i, n) ==
  LET id(r) == ((year - 2023) * 12 + month_order_pt[month]) * 100 + i * 10 + r
  IN  [columns |-> RawColumns(Len(table_attributes[kind])),
       rows |-> [r \in 1..n |->
                   IF kind = "content_metrics"
                   THEN RawMetricsRow(<<"mdY", 1, r, 2024>>, 100,
                                      <<Num(id(r)), Num(2), Num(0),
                                        IF r = 2 THEN Num(-1) ELSE Num(3)>>,
                                      Frac(1, 4))
                   ELSE RawRow(kind, id(r))]]

RawFile(category, year, month, i, n) ==
  [category |-> category,
   sheets |-> [kind \in {category_keys[category][k] :
                           k \in 1..Len(category_keys[category])} |->
                 RawFrame(kind, year, month, i, n)]]

\* The month directory with one file per row count of counts, in that order.
MonthDir(category, year, month, counts) ==
  [category |-> category, year |-> year, month |-> month,
   files |-> [i \in 1..Len(counts) |-> RawFile(category, year, month, i, counts[i])]]

\* What every run starts from, but for engine and listing.
InitRest ==
  /\ pc = "extract_data"
  /\ cur = 1
  /\ data = <<>>
  /\ tables = <<>>
  /\ db = <<>>
  /\ pre = <<>>
  /\ post = <<>>
  /\ monthly_data = <<>>
  /\ category_data = <<>>
  /\ clean_files = <<>>
  /\ raised = [exc |-> "none", in |-> "none"]

\* The steps of extract_data and transform_data (and, for duckdb, of
\* convert_pandas_to_duck before it).
NextTransform ==
  \/ extract_data
  \/ translate_cols
  \/ add_final_date_pandas
  \/ convert_column_types
  \/ clean_content_metrics_data
  \/ load_data_from_pandas
  \/ process_content_metrics
  \/ add_final_date_duckdb

(***************************************************************************)
(* SpecPeriod: one month directory of any year and month token, holding    *)
(* from no file at all to one file more than MaxFiles, its files one row   *)
(* long.                                                                   *)
(***************************************************************************)
PeriodYears == {2000, 2023, 2024, 2025, 2100}
PeriodMonths ==
  {"Jan", "Fev", "Mar", "Abr", "Mai", "Maio", "Jun", "Jul", "Ago", "Set", "Out",
   "Nov", "Dez", "May"}

\* A one-row sheet of kind; SpecPeriod's months need not be known to
\* month_order_pt, so the row's id is its file's number.
PeriodFile(category, i) ==
  [category |-> category,
   sheets |-> [kind \in {category_keys[category][k] :
                           k \in 1..Len(category_keys[category])} |->
                 [columns |-> RawColumns(Len(table_attributes[kind])),
                  rows |-> << IF kind = "content_metrics"
                              THEN RawMetricsRow(<<"mdY", 1, 1, 2024>>, 100,
                                                 <<Num(i), Num(2), Num(0), Num(-1)>>,
                                                 Frac(1, 4))
                              ELSE RawRow(kind, i) >>]]]

InitPeriod ==
  /\ engine \in Engines
  /\ \E category \in PipelineCategories, year \in PeriodYears,
        month \in PeriodMonths, n \in 0..(MaxFiles + 1) :
       listing = << [category |-> category, year |-> year, month |-> month,
                     files |-> [i \in 1..n |-> PeriodFile(category, i)]] >>
  /\ InitRest

SpecPeriod == InitPeriod /\ [][NextTransform]_vars

(***************************************************************************)
(* SpecImpute: one content file whose content_metrics sheet holds up to    *)
(* MaxRows rows: dates consecutive, in reverse or rotated physical order,  *)
(* with gaps, repeated or with one missing; negative and non-negative      *)
(* totals in every mix; an impressions count of 100, or of 0 in the first  *)
(* row.  And the five-row table of the specification's example, totals     *)
(* 10, -5, 8, -3, 12.                                                      *)
(***************************************************************************)
MaxRows == 3

DateShapes == {"ascending", "descending", "rotated", "gapped", "repeated", "missing"}

\* The day of January 2024 in row r of n, as month/day/year text; a missing
\* date is read as NaN.
ShapedDate(shape, r, n) ==
  CASE shape = "ascending" -> <<"mdY", 1, r, 2024>>
    [] shape = "descending" -> <<"mdY", 1, n + 1 - r, 2024>>
    [] shape = "rotated" -> <<"mdY", 1, (r % n) + 1, 2024>>
    [] shape = "gapped" -> <<"mdY", 1, IF r = n THEN r + 3 ELSE r, 2024>>
    [] shape = "repeated" -> <<"mdY", 1, (r + 1) \div 2, 2024>>
    [] shape = "missing" -> IF r = 1 THEN NaN ELSE <<"mdY", 1, r, 2024>>

\* Reactions, comments, shares, clicks of a row.
ImputeTotals ==
  {<<Num(10), Num(4), Num(2), Num(6)>>,
   <<Num(-5), Num(-1), Num(-2), Num(-3)>>,
   <<Num(8), Num(-1), Num(0), Num(20)>>}

ExampleTotals == <<10, -5, 8, -3, 12>>

ExampleSheet ==
  [r \in 1..Len(ExampleTotals) |->
     RawMetricsRow(<<"mdY", 1, r, 2024>>, 100,
                   [f \in 1..4 |-> Num(ExampleTotals[r])], Frac(1, 4))]

\* The raw directory holding one content file with these content_metrics rows.
ImputeListing(rows) ==
  << [category |-> "content", year |-> 2024, month |-> "Jan",
      files |->
        << [category |-> "content",
            sheets |->
              [kind \in {"content_metrics", "content_posts"} |->
                 IF kind = "content_metrics"
                 THEN [columns |-> RawColumns(Len(table_attributes[kind])),
                       rows |-> rows]
                 ELSE RawFrame(kind, 2024, "Jan", 1, 1)]] >>] >>

InitImpute ==
  /\ engine \in Engines
  /\ \/ \E n \in 1..MaxRows, shape \in DateShapes, zeroAt \in {0, 1} :
        \E totals \in [1..n -> ImputeTotals] :
          listing = ImputeListing(
                      [r \in 1..n |->
                         RawMetricsRow(ShapedDate(shape, r, n),
                                       IF r = zeroAt THEN 0 ELSE 100,
                                       totals[r], Frac(1, 4))])
     \/ listing = ImputeListing(ExampleSheet)
  /\ InitRest

SpecImpute == InitImpute /\ [][NextTransform]_vars

(***************************************************************************)
(* Spec: main() on a raw directory of one category with one or two month   *)
(* directories, met in any order, each with up to MaxFiles files.          *)
(***************************************************************************)
\* The row counts of the files of a month directory, in listing order: they
\* alternate, starting from either count.
FileCounts ==
  {[i \in 1..n |-> IF i % 2 = 1 THEN first ELSE 3 - first] :
     <<n, first>> \in (0..MaxFiles) \X RowCounts}

MonthDirs == Years \X Months

\* One month directory, or two different ones in either order.
Listings ==
  {<<d>> : d \in MonthDirs} \cup {p \in MonthDirs \X MonthDirs : p[1] # p[2]}

Init ==
  /\ engine \in Engines
  /\ \E category \in PipelineCategories, dirs \in Listings :
     \E counts \in [1..Len(dirs) -> FileCounts] :
       listing = [k \in 1..Len(dirs) |->
                    MonthDir(category, dirs[k][1], dirs[k][2], counts[k])]
  /\ InitRest

Next ==
  \/ extract_data
  \/ translate_cols
  \/ add_final_date_pandas
  \/ convert_column_types
  \/ clean_content_metrics_data
  \/ load_data_from_pandas
  \/ process_content_metrics
  \/ add_final_date_duckdb
  \/ load_to_clean
  \/ concatenate_monthly_dataframes
  \/ concatenate_monthly_tables
  \/ export_month
  \/ concatenate_category_dataframes
  \/ concatenate_category_tables
  \/ export_all

Spec == Init /\ [][Next]_vars

(***************************************************************************)
(* What the properties below speak of.                                     *)
(***************************************************************************)
\* The table of data[k] as the pipeline holds it now.
Frame(k) ==
  IF engine = "pandas" THEN data[k].df ELSE db[DbTableName(data[k])]

\* The table of data[k] exists and has the column.
HasColumn(k, name) ==
  /\ engine = "duckdb" => DbTableName(data[k]) \in DOMAIN db
  /\ HasCol(Frame(k).columns, name)

\* The month tokens the running pipeline knows.
RecognizedMonths ==
  IF engine = "pandas" THEN DOMAIN month_order_pt
  ELSE {key[2] : key \in DOMAIN map_months_period}

\* The calendar month a token names.
MonthNumber ==
  [Jan |-> 1, Fev |-> 2, Mar |-> 3, Abr |-> 4, Mai |-> 5, Maio |-> 5, Jun |-> 6,
   Jul |-> 7, Ago |-> 8, Set |-> 9, Out |-> 10, Nov |-> 11, Dez |-> 12]

LastDayOfMonth(year, month) ==
  IF month \in {4, 6, 9, 11} THEN 30
  ELSE IF month # 2 THEN 31
  ELSE IF year % 4 = 0 /\ (year % 100 # 0 \/ year % 400 = 0) THEN 29
  ELSE 28

\* add_final_date raised on table k.
FinalDateRaisedOn(k) ==
  pc = "raised" /\ raised.in = "add_final_date" /\ cur = k

\* C1: for every year, every month token the pipeline knows and sequence 1
\* or 2, add_final_date does not fail and the Extraction Range of every row
\* is day 15 of that month for sequence 1, its last calendar day for
\* sequence 2.
C1_ExtractionRangeForEveryYear ==
  \A k \in 1..Len(data) :
    LET p == data[k].extraction_period
    IN  (p[2] \in RecognizedMonths /\ p[3] \in {1, 2}) =>
          /\ ~FinalDateRaisedOn(k)
          /\ HasColumn(k, "Extraction Range") =>
               \A r \in 1..Len(Frame(k).rows) :
                 to_datetime(Cell(Frame(k), r, "Extraction Range"))
                   = <<p[1], MonthNumber[p[2]],
                       IF p[3] = 1 THEN 15
                       ELSE LastDayOfMonth(p[1], MonthNumber[p[2]])>>

(***************************************************************************)
(* Imputation, seen through pre and post.                                  *)
(***************************************************************************)
\* Every row has a date and no two rows share one.
DatesDistinct(df) ==
  /\ \A r \in 1..Len(df.rows) : Cell(df, r, "Date") # NaT
  /\ \A r, t \in 1..Len(df.rows) :
       Cell(df, r, "Date") = Cell(df, t, "Date") => r = t

\* The place of row r in ascending date order, from 1.
DateRank(df, r) ==
  Cardinality({t \in 1..Len(df.rows) :
                 Ordinal(Cell(df, t, "Date")) <= Ordinal(Cell(df, r, "Date"))})

RowOfRank(df, n) == CHOOSE r \in 1..Len(df.rows) : DateRank(df, r) = n

\* The mean of the positive series of family f over row r and the rows just
\* before it by date, at most two of them.
TrailingMean(df, f, r) ==
  LET rank == DateRank(df, r)
      size == IF rank < 3 THEN rank ELSE 3
      positive == Positive(df, f)
  IN  FMean([j \in 1..size |-> positive[RowOfRank(df, rank - size + j)]])

\* C2: a negative total of a row with two rows before it by date is replaced
\* by the mean of the positive series over that row and the two rows just
\* before it in ascending date order, whatever the physical row order and
\* the gaps between dates.
C2_NegativeTotalGetsDateWindowMean ==
  \A k \in DOMAIN post :
    DatesDistinct(pre[k]) =>
      \A f \in 1..Len(Families), r \in 1..Len(pre[k].rows) :
        (IsNeg(Cell(pre[k], r, TotalColumn(Families[f]))) /\ DateRank(pre[k], r) >= 3)
          => Cell(post[k], r, TotalColumn(Families[f]))
               = TrailingMean(pre[k], Families[f], r)

\* C3: a negative total in the first or second row by date is replaced by
\* the mean over the rows that exist, a defined number: totals
\* 10, -5, 8, -3, 12 give 5 at the second row.
C3_BoundaryRowsAverageWhatExists ==
  \A k \in DOMAIN post :
    DatesDistinct(pre[k]) =>
      \A f \in 1..Len(Families), r \in 1..Len(pre[k].rows) :
        (IsNeg(Cell(pre[k], r, TotalColumn(Families[f]))) /\ DateRank(pre[k], r) < 3)
          => /\ ~IsNaN(Cell(post[k], r, TotalColumn(Families[f])))
             /\ Cell(post[k], r, TotalColumn(Families[f]))
                  = TrailingMean(pre[k], Families[f], r)

\* C4: imputation leaves every non-negative total as it was, also when rows
\* share a Date or lack one.
C4_NonNegativeTotalsUnchanged ==
  \A k \in DOMAIN post :
    \A f \in 1..Len(Families), r \in 1..Len(pre[k].rows) :
      IsGe0(Cell(pre[k], r, TotalColumn(Families[f])))
        => Cell(post[k], r, TotalColumn(Families[f]))
             = Cell(pre[k], r, TotalColumn(Families[f]))

\* The total engagement-rate column of a table imputation returned.
RateColumn(df) ==
  IF HasCol(df.columns, "Engagement Rate (total)") THEN "Engagement Rate (total)"
  ELSE "Engagement rate (total)"

HasImpressions(df, r) ==
  ~IsNaN(Cell(df, r, "Impressions (total)")) /\ Cell(df, r, "Impressions (total)")[1] # 0

\* C5: after imputation the total engagement rate of every row is
\* (reactions + comments + clicks + shares) / impressions over the repaired
\* totals.
C5_RateRecomputedFromRepairedTotals ==
  \A k \in DOMAIN post :
    \A r \in 1..Len(post[k].rows) :
      HasImpressions(post[k], r) =>
        Cell(post[k], r, RateColumn(post[k]))
          = FDiv(EngagementSum(post[k], r), Cell(post[k], r, "Impressions (total)"))

\* Row r has an impressions count of 0.
ZeroImpressions(df, r) == Cell(df, r, "Impressions (total)") = Num(0)

ImputationRaisedOn(k) ==
  /\ pc = "raised" /\ cur = k
  /\ raised.in \in {"clean_content_metrics_data", "process_content_metrics"}

\* C6: with a row of 0 impressions imputation completes without raising and
\* that row's engagement rate is the missing value.
C6_ZeroImpressionsGiveMissingRate ==
  /\ \A k \in 1..Len(data) :
       (/\ data[k].dataframe_name = "content_metrics"
        /\ HasColumn(k, "Impressions (total)")
        /\ \E r \in 1..Len(Frame(k).rows) : ZeroImpressions(Frame(k), r))
         => ~ImputationRaisedOn(k)
  /\ \A k \in DOMAIN post :
       \A r \in 1..Len(post[k].rows) :
         ZeroImpressions(post[k], r) => IsNaN(Cell(post[k], r, RateColumn(post[k])))

\* The columns imputation may change.
ImputedColumns ==
  {TotalColumn(Families[f]) : f \in 1..Len(Families)}
    \cup {"Engagement rate (total)", "Engagement Rate (total)"}

\* C7: imputation returns as many rows and the same columns as it was given,
\* changes no column but the four totals and the total engagement rate, and
\* leaves no temporary table.
C7_ImputationKeepsShape ==
  \A k \in DOMAIN post :
    /\ Len(post[k].rows) = Len(pre[k].rows)
    /\ post[k].columns = pre[k].columns
    /\ \A c \in 1..Len(pre[k].columns) :
         pre[k].columns[c] \notin ImputedColumns =>
           \A r \in 1..Len(pre[k].rows) : post[k].rows[r][c] = pre[k].rows[r][c]
    /\ engine = "duckdb" => Append(DbTableName(data[k]), "temp") \notin DOMAIN db

(***************************************************************************)
(* Aggregation, seen through monthly_data and category_data.               *)
(***************************************************************************)
\* The year and the month token of monthly group g.
GroupYear(g) ==
  IF engine = "pandas" THEN monthly_data[g].key[1] ELSE monthly_data[g].key[2]

GroupMonth(g) ==
  IF engine = "pandas" THEN monthly_data[g].key[2] ELSE monthly_data[g].key[3]

\* The tables of data of a kind, year and month.
TablesOf(kind, year, month) ==
  {k \in 1..Len(data) :
     /\ data[k].dataframe_name = kind
     /\ data[k].extraction_period[1] = year
     /\ data[k].extraction_period[2] = month}

Members(g) == TablesOf(monthly_data[g].category, GroupYear(g), GroupMonth(g))

\* The member of group g with sequence number s.
MemberOfSequence(g, s) ==
  CHOOSE k \in Members(g) : data[k].extraction_period[3] = s

\* The monthly table of group g.
MonthlyTable(g) ==
  IF engine = "pandas" THEN monthly_data[g].concatenated_df
  ELSE db[monthly_data[g].key]

AloneInMonth(k) ==
  TablesOf(data[k].dataframe_name, data[k].extraction_period[1],
           data[k].extraction_period[2]) = {k}

\* A monthly table exists for the kind, year and month of table k.
HasMonthlyTable(k) ==
  IF engine = "pandas"
  THEN HasKey(monthly_data, <<data[k].extraction_period[1],
                              data[k].extraction_period[2],
                              data[k].dataframe_name>>)
  ELSE <<data[k].dataframe_name, data[k].extraction_period[1],
         data[k].extraction_period[2]>> \in DOMAIN db

\* C9: monthly aggregation fails, and produces no monthly table for the key,
\* whenever a group holds only one of its two sequence tables.
C9_LoneTableStopsMonthlyAggregation ==
  \A k \in 1..Len(data) :
    AloneInMonth(k) =>
      /\ pc \notin {"export_month", "concatenate_category", "export_all", "done"}
      /\ ~HasMonthlyTable(k)

\* The category table of category group c.
CategoryTable(c) ==
  IF engine = "pandas" THEN category_data[c].concatenated_df
  ELSE db[category_data[c].key]

\* Months counted from year 0.
MonthIndex(g) == GroupYear(g) * 12 + month_order_pt[GroupMonth(g)]

\* The monthly groups of S, earliest month first.
RECURSIVE Chronological(_)
Chronological(S) ==
  IF S = {} THEN <<>>
  ELSE LET g == CHOOSE x \in S : \A y \in S : MonthIndex(x) <= MonthIndex(y)
       IN  <<g>> \o Chronological(S \ {g})

\* C10: the category table of a kind holds the rows of its monthly tables in
\* ascending (year, month) order, whatever order the directories were met
\* in, and has as many rows as they have together.
C10_CategoryTableIsChronological ==
  \A c \in 1..Len(category_data) :
    LET months == {g \in 1..Len(monthly_data) :
                     monthly_data[g].category = category_data[c].category}
        order == Chronological(months)
    IN  CategoryTable(c).rows
          = Flatten([i \in 1..Len(order) |-> MonthlyTable(order[i]).rows])

(***************************************************************************)
(* SpecUnion: the two aggregations called on tables of one kind,           *)
(* MaxFiles per month of UnionMonths, whose column lists may differ: the   *)
(* typed columns and Extraction Range, the same without the last catalog   *)
(* column, or the same with the first column under another name.           *)
(***************************************************************************)
UnionMonths == <<"Jan", "Fev">>
UnionShapes == {"full", "short", "renamed"}

\* A typed one-row table of the competitor kind in the given shape.
UnionFrame(shape, id) ==
  LET attributes == table_attributes["competitor"]
      names == [k \in 1..Len(attributes) |-> attributes[k][1]]
      cells == [k \in 1..Len(attributes) |->
                  CastTo(attributes[k][2], RawRow("competitor", id)[k])]
      last == Len(attributes)
  IN  CASE shape = "short" ->
             [columns |-> Append(SubSeq(names, 1, last - 1), "Extraction Range"),
              rows |-> <<Append(SubSeq(cells, 1, last - 1), <<2023, 1, 15>>)>>]
        [] shape = "renamed" ->
             [columns |-> Append(<<"Unnamed: 1">> \o Tail(names), "Extraction Range"),
              rows |-> <<Append(cells, <<2023, 1, 15>>)>>]
        [] OTHER ->
             [columns |-> Append(names, "Extraction Range"),
              rows |-> <<Append(cells, <<2023, 1, 15>>)>>]

\* The entry transform_data leaves for the i-th file of 2023/month.
UnionEntry(m, i, shape) ==
  [dataframe_name |-> "competitor",
   dir |-> <<"competitor", 2023, UnionMonths[m]>>,
   extraction_period |-> <<2023, UnionMonths[m], i>>,
   df |-> UnionFrame(shape, m * 10 + i)]

InitUnion ==
  /\ engine \in Engines
  /\ pc = "concatenate_monthly"
  /\ cur = 1
  /\ \E shape \in [(1..Len(UnionMonths)) \X (1..MaxFiles) -> UnionShapes] :
       data = Flatten([m \in 1..Len(UnionMonths) |->
                         [i \in 1..MaxFiles |-> UnionEntry(m, i, shape[<<m, i>>])]])
  /\ listing = <<>>
  /\ tables = IF engine = "pandas" THEN <<>>
              ELSE [k \in 1..Len(data) |->
                      [dataframe_name |-> data[k].dataframe_name,
                       extraction_period |-> data[k].extraction_period,
                       db_table_name |-> DbTableName(data[k]),
                       export_dir |-> data[k].dir]]
  /\ db = IF engine = "pandas" THEN <<>>
          ELSE [name \in {DbTableName(data[k]) : k \in 1..Len(data)} |->
                  data[CHOOSE k \in 1..Len(data) : DbTableName(data[k]) = name].df]
  /\ pre = <<>>
  /\ post = <<>>
  /\ monthly_data = <<>>
  /\ category_data = <<>>
  /\ clean_files = <<>>
  /\ raised = [exc |-> "none", in |-> "none"]

NextUnion ==
  \/ concatenate_monthly_dataframes
  \/ concatenate_monthly_tables
  \/ export_month
  \/ concatenate_category_dataframes
  \/ concatenate_category_tables
  \/ export_all

SpecUnion == InitUnion /\ [][NextUnion]_vars

\* The unions made so far, each with the tables it was made of.
MonthlyUnions ==
  IF engine = "pandas"
  THEN {[inputs |-> monthly_data[g].dfs, result |-> monthly_data[g].concatenated_df] :
          g \in 1..Len(monthly_data)}
  ELSE LET groups == GroupMonthlyDuck(tables, Len(tables))
       IN  {[inputs |-> [k \in 1..2 |-> db[groups[g].tables[k]]],
             result |-> db[groups[g].key]] :
              g \in {h \in 1..Len(groups) :
                       groups[h].key \in DOMAIN db /\ Len(groups[h].tables) >= 2}}

CategoryUnions ==
  IF engine = "pandas"
  THEN {[inputs |-> category_data[g].dfs, result |-> category_data[g].concatenated_df] :
          g \in 1..Len(category_data)}
  ELSE LET groups == GroupCategoryDuck(monthly_data, Len(monthly_data))
       IN  {[inputs |-> [k \in 1..Len(groups[g].tables) |-> db[groups[g].tables[k]]],
             result |-> db[groups[g].key]] :
              g \in {h \in 1..Len(groups) : groups[h].key \in DOMAIN db}}

\* C11: a monthly or category union exists only of tables that all have the
\* same column list; tables whose column lists differ make the union fail
\* and give no table with columns filled in.
C11_UnionOnlyOfEqualColumnLists ==
  \A u \in MonthlyUnions \cup CategoryUnions :
    \A i \in 1..Len(u.inputs) : u.inputs[i].columns = u.inputs[1].columns

(***************************************************************************)
(* SpecCatalog: one month directory of any of the four categories, its     *)
(* files one row long, through extract_data and transform_data.            *)
(***************************************************************************)
InitCatalog ==
  /\ engine \in Engines
  /\ \E category \in DOMAIN category_keys, month \in Months, n \in 1..MaxFiles :
       listing = << [category |-> category, year |-> 2023, month |-> month,
                     files |-> [i \in 1..n |-> PeriodFile(category, i)]] >>
  /\ InitRest

SpecCatalog == InitCatalog /\ [][NextTransform]_vars

\* The catalog the running pipeline looks kinds up in.
Catalog ==
  IF engine = "pandas" THEN DOMAIN translated_columns ELSE DOMAIN table_attributes

\* The sheet kinds read_excel_file produces for a file of the category.
KindsOf(category) ==
  {category_keys[category][k] : k \in 1..Len(category_keys[category])}

SheetKinds == UNION {KindsOf(category) : category \in DOMAIN category_keys}

\* The catalogs of the two pipelines register the same kinds, 1 for
\* competitor, 2 for content, 6 for followers and 6 for visitors, which are
\* the sheet kinds of the reader; every table read is of a registered kind.
CatalogMatchesReader ==
  /\ DOMAIN translated_columns = DOMAIN table_attributes
  /\ DOMAIN category_keys = {"competitor", "content", "followers", "visitors"}
  /\ Cardinality(KindsOf("competitor")) = 1
  /\ Cardinality(KindsOf("content")) = 2
  /\ Cardinality(KindsOf("followers")) = 6
  /\ Cardinality(KindsOf("visitors")) = 6
  /\ \A c1, c2 \in DOMAIN category_keys : c1 # c2 => KindsOf(c1) \cap KindsOf(c2) = {}
  /\ SheetKinds = Catalog
  /\ \A k \in 1..Len(data) : data[k].dataframe_name \in Catalog

\* C12, as the code has it: the catalog registers exactly 15 kinds, 1 for
\* competitor, 2 for content, 6 for followers and 6 for visitors, and they
\* are the sheet kinds the reader produces for the four categories.
C12_CatalogHasFifteenKinds ==
  Cardinality(Catalog) = 15 /\ CatalogMatchesReader

\* C12, as stated: the same with exactly 16 kinds.
C12_CatalogHasSixteenKinds ==
  Cardinality(Catalog) = 16 /\ CatalogMatchesReader

\* Both files of a visitors month directory have been read: two tables of
\* each of the six visitors kinds.
C12_VisitorsFilesRead ==
  /\ pc # "extract_data"
  /\ Len(data) = 12
  /\ {data[k].dataframe_name : k \in 1..Len(data)} = KindsOf("visitors")

(***************************************************************************)
(* SpecTyping: convert_pandas_to_duck and transform_data called on one     *)
(* table of any kind, registered or not: with as many columns as the       *)
(* catalog entry, one fewer or one more; under the names read_excel gives  *)
(* or under the catalog's names in reverse order; its date cells, row by   *)
(* row, month/day/year text, day/month/year text, text that reads both     *)
(* ways, the empty string or a missing value.  And the same calls made a   *)
(* second time on what the first produced.                                 *)
(***************************************************************************)
TypingKinds == DOMAIN table_attributes \cup {"unregistered"}
TypingDeltas == {-1, 0, 1}
TypingNames == {"read", "reversed"}
TypingDates ==
  {<<"mdY", 1, 15, 2024>>, <<"mdY", 13, 1, 2024>>, <<"mdY", 1, 2, 2024>>, <<"">>, NaN}

\* The catalog entry a table of the kind is laid out after; a table of no
\* registered kind is laid out like a competitor table.
LayoutOf(kind) ==
  IF kind \in DOMAIN table_attributes THEN table_attributes[kind]
  ELSE table_attributes["competitor"]

\* A row as read, its date cells all holding date; the integer cells of the
\* first row of a table that is not content_metrics are negative.
TypingRow(kind, id, date) ==
  IF kind = "content_metrics"
  THEN RawMetricsRow(date, 100, <<Num(id), Num(2), Num(0), Num(3)>>, Frac(1, 4))
  ELSE [k \in 1..Len(LayoutOf(kind)) |->
          IF LayoutOf(kind)[k][2] = "DATE" THEN date
          ELSE RawRow(IF kind \in DOMAIN table_attributes THEN kind ELSE "competitor",
                      IF id = 1 THEN -1 ELSE id)[k]]

\* The row cut to n cells, or filled up to n cells with text.
Resized(row, n) ==
  [k \in 1..n |-> IF k <= Len(row) THEN row[k] ELSE <<"text">>]

TypingFrame(kind, names, delta, dates) ==
  LET layout == LayoutOf(kind)
      n == Len(layout) + delta
  IN  [columns |-> IF names = "reversed" /\ delta = 0
                   THEN [k \in 1..n |-> layout[n + 1 - k][1]]
                   ELSE RawColumns(n),
       rows |-> [r \in 1..Len(dates) |-> Resized(TypingRow(kind, r, dates[r]), n)]]

TypingEntry(kind, names, delta, dates) ==
  [dataframe_name |-> kind,
   dir |-> <<"typing", 2023, "Jan">>,
   extraction_period |-> <<2023, "Jan", 1>>,
   df |-> TypingFrame(kind, names, delta, dates)]

\* What translate_cols, add_final_date and convert_column_types make of the
\* entry under a pandas version (a registered kind, as many columns as its
\* catalog entry).
TypedEntry(entry, version) ==
  LET name == entry.dataframe_name
      named == SetColumns(entry.df, translated_columns[name])
      dated == SetCol(named, "Extraction Range",
                      [r \in 1..Len(named.rows) |->
                         FinalDatePandas(entry.extraction_period)])
  IN  [entry EXCEPT !.df =
         ConvertColumns(dated,
                        Append(IF name \in DOMAIN date_columns THEN date_columns[name]
                               ELSE <<>>,
                               "Extraction Range"),
                        version).df]

InitTyping ==
  /\ engine \in Engines
  /\ cur = 1
  /\ \E kind \in TypingKinds, names \in TypingNames, delta \in TypingDeltas,
        n \in RowCounts :
       \E dates \in [1..n -> TypingDates] :
         LET entry == TypingEntry(kind, names, delta, dates)
         IN  \/ /\ data = <<entry>>
                /\ pc = IF engine = "pandas" THEN "translate_cols"
                        ELSE "load_data_from_pandas"
             \/ /\ engine = "duckdb"
                /\ data = <<entry, entry>>
                /\ pc = "load_data_from_pandas"
             \/ /\ engine = "pandas"
                /\ kind \in DOMAIN translated_columns /\ delta = 0
                /\ \E version \in PandasVersions :
                     data = <<TypedEntry(entry, version)>>
                /\ pc = "convert_column_types"
  /\ listing = <<>>
  /\ tables = <<>>
  /\ db = <<>>
  /\ pre = <<>>
  /\ post = <<>>
  /\ monthly_data = <<>>
  /\ category_data = <<>>
  /\ clean_files = <<>>
  /\ raised = [exc |-> "none", in |-> "none"]

NextTyping ==
  \/ translate_cols
  \/ add_final_date_pandas
  \/ convert_column_types
  \/ clean_content_metrics_data
  \/ load_data_from_pandas
  \/ process_content_metrics
  \/ add_final_date_duckdb

SpecTyping == InitTyping /\ [][NextTyping]_vars

\* The pipeline is about to look the kind of data[cur] up in its catalog.
AtCatalogLookup == pc \in {"translate_cols", "load_data_from_pandas"}

\* C13: looking up a kind the catalog does not register makes the method
\* fail (translate_cols with a TypeError, load_data_from_pandas with an
\* AttributeError) and changes nothing: the table passed in keeps its
\* columns and cells, no database table is created, none is listed.
C13_UnknownKindFailsWithoutEffect ==
  [][(AtCatalogLookup /\ data[cur].dataframe_name \notin Catalog) =>
       /\ pc' = "raised"
       /\ raised' = [exc |-> IF engine = "pandas" THEN "TypeError" ELSE "AttributeError",
                     in |-> pc]
       /\ data' = data
       /\ db' = db
       /\ tables' = tables]_vars

\* The lookup of an unregistered kind has failed in the DuckDB pipeline.
C13_UnknownKindLookedUp ==
  /\ engine = "duckdb"
  /\ pc = "raised" /\ raised.in = "load_data_from_pandas"
  /\ data[cur].dataframe_name \notin Catalog
  /\ db = <<>>

\* The column names of the catalog entry of a registered kind, in order.
EntryNames(kind) ==
  IF engine = "pandas" THEN translated_columns[kind]
  ELSE [k \in 1..Len(table_attributes[kind]) |-> table_attributes[kind][k][1]]

\* C14: renaming a table of a registered kind is positional.  With as many
\* columns as the catalog entry, the i-th column gets the i-th catalog name
\* whatever it was called and keeps its cells, and so does the database
\* table made of it; with another number of columns the method fails and
\* the table keeps every column it had, no column added, no table created.
C14_RenamingIsPositional ==
  [][(AtCatalogLookup /\ data[cur].dataframe_name \in Catalog) =>
       LET d == data[cur]
           labels == EntryNames(d.dataframe_name)
       IN  IF Len(d.df.columns) = Len(labels)
           THEN /\ data'[cur].df = [columns |-> labels, rows |-> d.df.rows]
                /\ \A name \in DOMAIN db' \ DOMAIN db : db'[name].columns = labels
           ELSE /\ pc' = "raised"
                /\ data' = data
                /\ db' = db
                /\ tables' = tables]_vars

\* A table whose columns came under the catalog's names in reverse order has
\* been renamed, and the same table waits to be renamed after it.
C14_ReversedNamesRenamed ==
  /\ engine = "duckdb" /\ pc = "load_data_from_pandas"
  /\ Len(data) = 2 /\ cur = 2
  /\ data[2].dataframe_name \in Catalog
  /\ LET labels == EntryNames(data[2].dataframe_name)
     IN  /\ Len(labels) >= 2
         /\ data[1].df.columns = labels
         /\ data[2].df.columns = [k \in 1..Len(labels) |-> labels[Len(labels) + 1 - k]]
         /\ data[1].df.rows = data[2].df.rows

(***************************************************************************)
(* Discovery and the resolver, under SpecPeriod.                           *)
(***************************************************************************)
\* extract_data has returned or raised.
Discovered == pc # "extract_data"

\* C15: the files of a month directory are numbered 1 and 2 as they are
\* met, and a month directory holding another number of files than 1 or 2
\* makes extract_data fail, so that no table has a sequence number outside
\* {1, 2}.
C15_SequenceIsOneOrTwo ==
  /\ \A k \in 1..Len(data) : data[k].extraction_period[3] \in {1, 2}
  /\ (Discovered /\ \E e \in 1..Len(listing) : Len(listing[e].files) \notin {1, 2})
       => pc = "raised" /\ raised.in = "extract_data"

\* C16: a table whose month token the pipeline does not know never gets an
\* Extraction Range column and stops transform_data; on a month token the
\* pipeline knows (sequence 1 or 2) add_final_date does not fail.
C16_ResolverKnowsItsTokens ==
  \A k \in 1..Len(data) :
    LET p == data[k].extraction_period
    IN  /\ p[2] \notin RecognizedMonths =>
             ~HasColumn(k, "Extraction Range") /\ pc # "load_to_clean"
        /\ (p[2] \in RecognizedMonths /\ p[3] \in {1, 2}) => ~FinalDateRaisedOn(k)

(***************************************************************************)
(* Type coercion, under SpecTyping: convert_column_types in the pandas     *)
(* pipeline, the INSERT of load_data_from_pandas in the DuckDB pipeline.   *)
(***************************************************************************)
\* The date columns coercion converts in a table of the kind.
CoercedDateColumns(kind) ==
  IF engine = "pandas"
  THEN IF kind \in DOMAIN date_columns
       THEN {date_columns[kind][k] : k \in 1..Len(date_columns[kind])}
       ELSE {}
  ELSE {table_attributes[kind][k][1] :
          k \in {j \in 1..Len(table_attributes[kind]) :
                   table_attributes[kind][j][2] = "DATE"}}

\* This step is coercion completing on data[cur].
CoercionDone ==
  \/ pc = "convert_column_types" /\ pc' # "raised"
  \/ pc = "load_data_from_pandas" /\ tables' # tables

\* The table coercion read, under the catalog's names, and the one it made.
Uncoerced == IF engine = "pandas" THEN data[cur].df ELSE data'[cur].df
Coerced == IF engine = "pandas" THEN data'[cur].df ELSE db'[DbTableName(data[cur])]

\* result is what the claim has coercion make of cell: the missing date of
\* an empty string or a missing value, the date as it is of a date, and of
\* anything else the date it spells as month/day/year text.
ReadMonthDayYear(cell, result) ==
  IF cell = <<"">> \/ cell = NaN \/ cell = NaT THEN result = NaT
  ELSE IF Len(cell) = 3 THEN result = cell
  ELSE /\ Len(cell) = 4
       /\ cell[1] = "mdY"
       /\ result = <<cell[4], cell[2], cell[3]>>

\* C17: coercion makes of every empty or missing cell of a date column the
\* missing date, and of every other cell the date it spells as
\* month/day/year.
C17_DateCellsReadMonthDayYear ==
  [][CoercionDone =>
       \A c \in CoercedDateColumns(data[cur].dataframe_name) :
         \A r \in 1..Len(Uncoerced.rows) :
           ReadMonthDayYear(Cell(Uncoerced, r, c), Cell(Coerced, r, c))]_vars

\* Every cell of the columns convert_column_types converts is a date already.
AlreadyTyped(d) ==
  \A c \in CoercedDateColumns(d.dataframe_name) \cup {"Extraction Range"} :
    /\ HasCol(d.df.columns, c)
    /\ \A r \in 1..Len(d.df.rows) : Len(Cell(d.df, r, c)) = 3

\* Coercion is about to be applied again: to a table it has typed (pandas),
\* to the table whose database table it has made (duckdb).
SecondCoercion ==
  \/ /\ engine = "pandas" /\ pc = "convert_column_types"
     /\ AlreadyTyped(data[cur])
  \/ /\ engine = "duckdb" /\ pc = "load_data_from_pandas"
     /\ cur > 1
     /\ DbTableName(data[cur]) = DbTableName(data[cur - 1])
     /\ data[cur].df.rows = data[cur - 1].df.rows
     /\ DbTableName(data[cur]) \in DOMAIN db

\* C18: coercion applied a second time does not fail and leaves the table's
\* columns and cells and the stored tables as they were.
C18_SecondCoercionChangesNothing ==
  [][SecondCoercion =>
       /\ pc' # "raised"
       /\ data'[cur].df.rows = data[cur].df.rows
       /\ engine = "pandas" => data'[cur].df.columns = data[cur].df.columns
       /\ db' = db]_vars

(***************************************************************************)
(* The files written, under Spec.  load_to_clean writes one file per       *)
(* table in the order of the tables, the monthly export one per monthly    *)
(* group after them, the category export one per category group last.      *)
(***************************************************************************)
\* The number of per-extraction files among clean_files.
Extractions ==
  IF clean_files = <<>> THEN 0
  ELSE IF engine = "pandas" THEN Len(data) ELSE Len(tables)

\* The kind of the table written to a file.
FileKind(f) ==
  IF f.file[1] \in {"month", "all_extractions"} THEN f.file[2] ELSE f.file[1]

\* C19: every table written, per extraction, monthly or for a category, of
\* every kind, has the columns of its catalog entry in catalog order and
\* Extraction Range after them; the rows of a per-extraction table share
\* one Extraction Range, and every row of a monthly or category table is a
\* row of a per-extraction table of its kind, Extraction Range included.
C19_ExportedTablesFollowCatalog ==
  \A i \in 1..Len(clean_files) :
    LET f == clean_files[i]
        kind == FileKind(f)
    IN  /\ f.df.columns = Append(EntryNames(kind), "Extraction Range")
        /\ i <= Extractions =>
             \A r, t \in 1..Len(f.df.rows) :
               Cell(f.df, r, "Extraction Range") = Cell(f.df, t, "Extraction Range")
        /\ i > Extractions =>
             \A r \in 1..Len(f.df.rows) :
               \E j \in 1..Extractions :
                 /\ FileKind(clean_files[j]) = kind
                 /\ \E t \in 1..Len(clean_files[j].df.rows) :
                      clean_files[j].df.rows[t] = f.df.rows[r]

\* The name the naming contract gives the i-th file written, without .csv:
\* kind and extraction period, month with kind, year and month, or
\* all_extractions with the kind.
ContractName(i) ==
  IF i <= Extractions
  THEN IF engine = "pandas"
       THEN <<data[i].dataframe_name>> \o data[i].extraction_period
       ELSE <<tables[i].dataframe_name>> \o tables[i].extraction_period
  ELSE IF i <= Extractions + Len(monthly_data)
  THEN LET g == monthly_data[i - Extractions]
       IN  IF engine = "pandas" THEN <<"month", g.category, g.key[1], g.key[2]>>
           ELSE <<"month", g.category, g.key[2], g.key[3]>>
  ELSE <<"all_extractions", FileKind(clean_files[i])>>

\* Two files written are one path: the same directory and the same name.
SamePath(f, g) ==
  /\ f.dir = g.dir
  /\ f.file[1] = g.file[1]
  /\ f.file = g.file

\* C20: every file written bears the name the naming contract gives it, and
\* no two files written are one path.
C20_ExportNamesFollowContract ==
  /\ \A i \in 1..Len(clean_files) : clean_files[i].file = ContractName(i)
  /\ \A i, j \in 1..Len(clean_files) :
       SamePath(clean_files[i], clean_files[j]) => i = j

(***************************************************************************)
(* Aggregation and its inputs, under Spec.                                 *)
(***************************************************************************)
\* The next step is an aggregation.
AtAggregation == pc \in {"concatenate_monthly", "concatenate_category"}

\* The groups the DuckDB aggregation about to run makes tables for.
GroupsToCreate ==
  IF pc = "concatenate_monthly" THEN GroupMonthlyDuck(tables, Len(tables))
  ELSE GroupCategoryDuck(monthly_data, Len(monthly_data))

\* C21: an aggregation step leaves every table it reads as it was: the
\* per-extraction tables keep their names, columns and rows, every table
\* of the database stays under its name with its columns and rows, and the
\* category step leaves the monthly groups and tables too; the tables the
\* step creates come under names no table had.
C21_AggregationLeavesItsInputs ==
  [][AtAggregation =>
       /\ data' = data
       /\ tables' = tables
       /\ \A name \in DOMAIN db : name \in DOMAIN db' /\ db'[name] = db[name]
       /\ pc = "concatenate_category" => monthly_data' = monthly_data
       /\ engine = "duckdb" =>
            \A g \in 1..Len(GroupsToCreate) :
              table_name(GroupsToCreate[g]) \notin DOMAIN db]_vars

\* Both aggregations have run in the DuckDB pipeline: the database holds
\* per-extraction, monthly and category tables.
C21_BothAggregationsDone ==
  /\ engine = "duckdb" /\ pc = "export_all"
  /\ category_data # <<>>
  /\ \A g \in 1..Len(category_data) : category_data[g].key \in DOMAIN db
  /\ \A g \in 1..Len(monthly_data) : monthly_data[g].key \in DOMAIN db
  /\ \A k \in 1..Len(tables) : tables[k].db_table_name \in DOMAIN db

(***************************************************************************)
(* The stages a table goes through, read off what the run holds.           *)
(***************************************************************************)
\* Period tagging has completed on table k: it has its Extraction Range.
Tagged(k) == HasColumn(k, "Extraction Range")

\* Type coercion has completed on table k: its date columns and Extraction
\* Range hold dates (pandas), its typed database table exists (duckdb).
Typed(k) ==
  IF engine = "pandas" THEN AlreadyTyped(data[k])
  ELSE DbTableName(data[k]) \in DOMAIN db

\* Some cell of a column the pandas coercion converts is a date already.
SomeDateTyped(k) ==
  \E c \in CoercedDateColumns(data[k].dataframe_name) \cup {"Extraction Range"} :
    /\ HasCol(data[k].df.columns, c)
    /\ \E r \in 1..Len(data[k].df.rows) : Len(Cell(data[k].df, r, c)) = 3

\* Imputation has completed on table k.
Imputed(k) == k \in DOMAIN post

\* Table k has been written by load_to_clean.
Exported(k) == k <= Extractions

\* The stage about to run has not run on its table before.
OncePerTable ==
  /\ pc = "add_final_date" => ~Tagged(cur)
  /\ pc \in {"convert_column_types", "load_data_from_pandas"} => ~Typed(cur)
  /\ pc \in {"clean_content_metrics_data", "process_content_metrics"} => ~Imputed(cur)
  /\ pc = "load_to_clean" => clean_files = <<>>
  /\ pc = "concatenate_monthly" => monthly_data = <<>>
  /\ pc = "concatenate_category" => category_data = <<>>

\* What both the stated and the coded order have: only content_metrics
\* tables are imputed; a table is written once coerced, tagged and (a
\* content_metrics table) imputed; months are aggregated after the tables
\* are written, categories after the months.
ExportAfterTransform ==
  /\ \A k \in 1..Len(data) :
       /\ Imputed(k) => data[k].dataframe_name = "content_metrics"
       /\ Exported(k) =>
            /\ Typed(k) /\ Tagged(k)
            /\ data[k].dataframe_name = "content_metrics" => Imputed(k)
  /\ monthly_data # <<>> => clean_files # <<>>
  /\ category_data # <<>> => monthly_data # <<>>

TransformPcs ==
  IF engine = "pandas"
  THEN {"translate_cols", "add_final_date", "convert_column_types",
        "clean_content_metrics_data"}
  ELSE {"process_content_metrics", "add_final_date"}

ImputationPcs == {"clean_content_metrics_data", "process_content_metrics"}

\* transform_data is at work on data[cur].
InTransform == pc \in TransformPcs /\ cur <= Len(data)

\* The table of data[k] as the step leaves it.
FrameAfter(k) ==
  IF engine = "pandas" THEN data'[k].df ELSE db'[DbTableName(data[k])]

\* The rows are the same in number and order, and every cell of the columns
\* the old frame had is the same, but for the declared date columns.
KeepsCells(old, new, kind) ==
  /\ Len(new.rows) = Len(old.rows)
  /\ Len(new.columns) >= Len(old.columns)
  /\ \A r \in 1..Len(old.rows) : \A i \in 1..Len(old.columns) :
       \/ new.rows[r][i] = old.rows[r][i]
       \/ new.columns[i] \in CoercedDateColumns(kind) \cup {"Extraction Range"}

\* The columns are the same, or the same followed by Extraction Range.
OnlyTagged(old, new) ==
  \/ new.columns = old.columns
  \/ new.columns = Append(old.columns, "Extraction Range")

\* Imputation runs on content_metrics tables only, and no content_metrics
\* table leaves transform_data without it.
ImputedIffContentMetrics ==
  /\ (pc' \in ImputationPcs /\ cur' <= Len(data')) =>
       data'[cur'].dataframe_name = "content_metrics"
  /\ (InTransform /\ cur' = cur + 1 /\ data[cur].dataframe_name = "content_metrics") =>
       cur \in DOMAIN post'
  /\ (InTransform /\ data[cur].dataframe_name # "content_metrics") =>
       pre' = pre /\ post' = post

\* The step leaves every table but data[cur] as it is.
OtherTablesKept ==
  IF engine = "pandas"
  THEN /\ Len(data') = Len(data)
       /\ \A k \in 1..Len(data) : k # cur => data'[k] = data[k]
  ELSE \A name \in DOMAIN db :
         name # DbTableName(data[cur]) =>
           name \in DOMAIN db' /\ db'[name] = db[name]

\* C23, as the code has it: transform_data imputes a table if and only if it
\* is of kind content_metrics; of a table of any other kind it keeps the rows
\* and every cell outside the declared date columns, negative numbers
\* included, and adds the Extraction Range column; the pandas transform_data
\* also gives the columns the catalog's names.
C23_OtherKindsRenamedTaggedRetyped ==
  [][/\ ImputedIffContentMetrics
     /\ (InTransform /\ data[cur].dataframe_name # "content_metrics") =>
          /\ OtherTablesKept
          /\ KeepsCells(Frame(cur), FrameAfter(cur), data[cur].dataframe_name)
          /\ \/ OnlyTagged(Frame(cur), FrameAfter(cur))
             \/ /\ engine = "pandas" /\ pc = "translate_cols"
                /\ FrameAfter(cur).columns = translated_columns[data[cur].dataframe_name]]_vars

\* C23, as stated: transform_data imputes a table if and only if it is of
\* kind content_metrics, and changes nothing of a table of any other kind
\* but the added Extraction Range column and the type of the declared date
\* columns.
C23_OtherKindsOnlyTaggedAndRetyped ==
  [][/\ ImputedIffContentMetrics
     /\ (InTransform /\ data[cur].dataframe_name # "content_metrics") =>
          /\ OtherTablesKept
          /\ KeepsCells(Frame(cur), FrameAfter(cur), data[cur].dataframe_name)
          /\ OnlyTagged(Frame(cur), FrameAfter(cur))]_vars

\* transform_data has finished a table of another kind than content_metrics
\* that holds a negative number.
C23_NegativeKeptInOtherKind ==
  /\ cur = 2 /\ pc = "load_to_clean" /\ Len(data) = 1
  /\ data[1].dataframe_name # "content_metrics"
  /\ HasColumn(1, "Extraction Range")
  /\ \E r \in 1..Len(Frame(1).rows) : \E i \in 1..Len(Frame(1).rows[r]) :
       Len(Frame(1).rows[r][i]) = 2 /\ IsNeg(Frame(1).rows[r][i])

\* C24: after imputation of a content_metrics table, whatever its totals and
\* dates, each of the four totals of every row is a defined number that is
\* not negative (so a second imputation would find nothing to repair).
C24_TotalsDefinedAndNonNegative ==
  \A k \in DOMAIN post :
    \A f \in 1..Len(Families), r \in 1..Len(post[k].rows) :
      IsGe0(Cell(post[k], r, TotalColumn(Families[f])))

(***************************************************************************)
(* Rows of the per-extraction tables in the aggregates.                    *)
(***************************************************************************)
\* The monthly table of the kind, year and month of table k.
MonthlyTableOf(k) ==
  IF engine = "pandas"
  THEN monthly_data[KeyIndex(monthly_data,
                             <<data[k].extraction_period[1],
                               data[k].extraction_period[2],
                               data[k].dataframe_name>>)].concatenated_df
  ELSE db[<<data[k].dataframe_name, data[k].extraction_period[1],
            data[k].extraction_period[2]>>]

\* A category-wide table exists for the kind of table k.
HasCategoryTable(k) ==
  /\ \E c \in 1..Len(category_data) :
       category_data[c].category = data[k].dataframe_name
  /\ engine = "duckdb" => <<data[k].dataframe_name>> \in DOMAIN db

CategoryTableOf(k) ==
  CategoryTable(CHOOSE c \in 1..Len(category_data) :
                  category_data[c].category = data[k].dataframe_name)

\* How many rows of table are row.
Occurrences(table, row) ==
  Cardinality({j \in 1..Len(table.rows) : table.rows[j] = row})

\* Every row of table is a row of one of the per-extraction tables of from.
OnlyRowsOf(table, from) ==
  \A j \in 1..Len(table.rows) :
    \E k \in from : \E r \in 1..Len(Frame(k).rows) : Frame(k).rows[r] = table.rows[j]

\* The run is over, the aggregations having been called.
AggregationOver ==
  \/ pc = "done"
  \/ pc = "raised" /\ raised.in \in {"concatenate_monthly", "concatenate_category"}

\* C25: however many files a month directory holds, the run ends with every
\* row of every per-extraction table exactly once in the monthly table of
\* its kind, year and month and exactly once in the category-wide table of
\* its kind, and no aggregate holds any other row.
C25_RowsConserved ==
  /\ AggregationOver =>
       \A k \in 1..Len(data) : HasMonthlyTable(k) /\ HasCategoryTable(k)
  /\ \A k \in 1..Len(data) :
       HasMonthlyTable(k) =>
         /\ \A r \in 1..Len(Frame(k).rows) :
              Occurrences(MonthlyTableOf(k), Frame(k).rows[r]) = 1
         /\ OnlyRowsOf(MonthlyTableOf(k),
                       TablesOf(data[k].dataframe_name, data[k].extraction_period[1],
                                data[k].extraction_period[2]))
  /\ \A k \in 1..Len(data) :
       HasCategoryTable(k) =>
         /\ \A r \in 1..Len(Frame(k).rows) :
              Occurrences(CategoryTableOf(k), Frame(k).rows[r]) = 1
         /\ OnlyRowsOf(CategoryTableOf(k),
                       {j \in 1..Len(data) :
                          data[j].dataframe_name = data[k].dataframe_name})
====
